---- MODULE Spec2Model ----
(***************************************************************************)
(* Verification model of the vnidsd daemon (chenlehua/vnids).              *)
(*                                                                         *)
(* Part I  : the lock-free MPSC event queue (vnidsd/src/event_queue.c),    *)
(*           one atomic operation of the C code per action.                *)
(* Part II : the Suricata watchdog / supervisor (vnidsd/src/watchdog.c),   *)
(*           one mutex-protected section of the C code per action.         *)
(* Part III: the event store (vnidsd/src/storage.c), one call per action.  *)
(* Part IV : the control server (vnidsd/src/config.c) with its command     *)
(*           handlers, one recv / framing step / send per action.          *)
(*                                                                         *)
(* Each part has its own specification (QueueSpec, WatchdogSpec,           *)
(* StoreSpec, ApiSpec); the variables of the other parts keep their        *)
(* initial value.                                                          *)
(***************************************************************************)
EXTENDS Integers, Sequences, FiniteSets, TLC

(***************************************************************************)
(* Bounds of the model                                                     *)
(***************************************************************************)
NumProducers == 2
MaxIdleStops == 2
MaxPush == 4
QueueCap == 2
SizeBits == 4
MaxInserts == 7
MaxTime == 2
MaxCap == 4
MaxQuery == 3
MaxRequests == 2
MaxLines == 5
MaxCallbacks == 2
MaxDispatch == 1
EVE_READ_BUFFER_SIZE == 4
MaxWritten == 3
MaxMsgs == 2
API_MAX_CLIENTS == 2
MaxRejected == 2

Producers == 1..NumProducers
MaxNodes == 1 + MaxPush
NodeIds == 1..MaxNodes
NULL == 0
NoEvent == <<0, 0>>

\* size_t arithmetic of current_size: fetch_add / fetch_sub wrap around.
\* (size_t is 64 bits wide in the build; the model keeps SizeBits bits.)
SizeModulus == 2 ^ SizeBits
WrapSize(n) == n % SizeModulus

VARIABLES
    \* ---- event queue (struct vnids_event_queue and its nodes) ----
    nxt,            \* node -> node->next (NULL = 0)
    evt,            \* node -> node->event
    live,           \* nodes currently allocated
    freedNodes,     \* nodes that were passed to free()
    head, tail,     \* queue->head, queue->tail
    enqueue_count, dequeue_count, drop_count, current_size,
    \* ---- producers (threads inside vnids_event_queue_push) ----
    ppc,            \* position of each producer inside push
    pnode,          \* local `node`
    pprev,          \* local `prev`
    pevent,         \* payload of the push in progress
    pcalls,         \* pushes started by each producer
    accepted,       \* payloads whose push returned 0
    refused,        \* payloads whose push returned -1
    stop_accepted,  \* payloads whose push had returned 0 when running was
                    \* set to false (history)
    \* ---- consumer (event handler thread, then queue destroy) ----
    cpc,            \* position inside vnids_event_queue_pop
    cevent,         \* payload copied out by the pop in progress
    phase,          \* who is popping: handler loop, handler drain, destroy
    delivered,      \* payloads popped by the event handler thread
    drained,        \* payloads popped by vnids_event_queue_destroy
    lastPop,        \* result of the last completed pop
    qrunning,       \* handler->running / ctx->running
    \* ---- watchdog (struct vnids_watchdog) ----
    state, restart_count, suricata_pid, running, thread_started,
    wpc,            \* position of watchdog_thread
    spc,            \* position of the caller inside vnids_watchdog_stop
    proc,           \* the child process as the kernel sees it
    sigchldIgnored, \* inherited disposition of SIGCHLD (children auto-reaped)
    fails,          \* consecutive failures (history)
    lastEvent, prevEvent, \* last two monitor observations (history)
    sinceStop,      \* a stop has returned and no start followed (history)
    idleStops,      \* stop calls that found no thread since then (history)
    wakeTick,       \* flips each time the monitor probes (history)
    backoff_ms,     \* watchdog_thread's local backoff_ms: the last wait taken
    stop_calls,     \* what the last stop_suricata did (history)
    \* ---- event store (struct vnids_storage and its events table) ----
    rows,           \* the events table: rows [id, timestamp, wr]
    seq_id,         \* sqlite_sequence: largest id ever given out
    max_events,     \* storage->max_events
    events_inserted, events_deleted,
    last_call,      \* the store call that returned last and its outcome (history)
    capHigh,        \* largest max_events configured so far (history)
    events_out,     \* rows handed back by the query that just returned
    query_n,        \* max_count of that query (-1: no query just returned)
    \* ---- control server (vnids_api_server_t, one api_client_t) ----
    wire,           \* bytes the client has written and the server not yet read
    peer_closed,    \* the client has closed its end of the socket
    sent,           \* requests the client has written, in order (history)
    active,         \* client->active
    recv_buffer,    \* client->recv_buffer[0 .. recv_used)
    errors, requests_processed,
    apc,            \* position of api_server_thread
    pending,        \* response built by the handler and not yet sent
    log,            \* what the server did to the session, in order (history)
    shutdown_requested,  \* control context: ctx->shutdown_requested
    daemon_running, \* daemon context: ctx->running
    server_running, \* server->running
    api_thread_started,  \* server->thread_started
    cfg_values,     \* the daemon's configuration values by key
    \* ---- EVE parser (vnids_eve_parse applied to one line) ----
    eve_line,       \* the line handed to the parser
    eve_result,     \* what the parser returned: [rc, event]
    \* ---- ingest reader (struct vnids_eve_reader) ----
    events_read, events_parsed, events_queued, parse_errors,
    latest_stats,   \* reader->latest_stats
    stats_lines,    \* lines that replaced latest_stats (history)
    rpc,            \* position of eve_reader_thread: between lines, or in push
    pushed_lines,   \* the lines whose event the reader pushed, in order (history)
    \* ---- event handler (struct vnids_event_handler) ----
    handler_storage,    \* handler->storage is not NULL
    callbacks,      \* handler->callbacks[0 .. callback_count)
    events_processed, events_stored, events_dropped, callbacks_invoked,
    dispatched,     \* the event processed last and how often each callback
                    \* was invoked for it (history)
    stored_events,  \* payloads whose insert succeeded, in order (history)
    \* ---- line reader (struct vnids_eve_client) and its socket ----
    client_buffer,  \* buffer[0 .. buffer_used)
    buffer_size,
    socket_bytes,   \* bytes the peer wrote that no read() has taken yet
    lines_written,  \* length of each line the peer wrote (history)
    lines_returned, \* the lines read_line returned, in order (history)
    \* ---- the daemon's worker threads and its teardown (vnidsd_ctx_t) ----
    thr,            \* position of each worker thread
    eve_sock,       \* the event socket: messages waiting, peer closed
    api_sock,       \* the control socket's client, if any
    received,       \* messages the reader thread received
    joining,        \* vnidsd_destroy: 0 not called, k waits in the k-th
                    \* pthread_join, 5 past all four
    \* ---- control server sessions (vnids_api_server_t.clients) ----
    clients,        \* slot -> [active, recv_used, head_len]; head_len is the
                    \* length declared by the first four staged bytes
    client_count,   \* server->client_count
    conn_rejected   \* connections closed by accept_client (history)

qvars == <<nxt, evt, live, freedNodes, head, tail, enqueue_count,
           dequeue_count, drop_count, current_size, ppc, pnode, pprev,
           pevent, pcalls, accepted, refused, stop_accepted, cpc, cevent,
           phase, delivered, drained, lastPop, qrunning>>
wvars == <<state, restart_count, suricata_pid, running, thread_started,
           wpc, spc, proc, sigchldIgnored, fails, lastEvent, prevEvent,
           sinceStop, idleStops, wakeTick, backoff_ms, stop_calls>>
svars == <<rows, seq_id, max_events, events_inserted, events_deleted,
           last_call, capHigh, events_out, query_n>>
avars == <<wire, peer_closed, sent, active, recv_buffer, errors,
           requests_processed, apc, pending, log, shutdown_requested,
           daemon_running, server_running, api_thread_started, cfg_values>>
evars == <<eve_line, eve_result, events_read, events_parsed, events_queued,
           parse_errors, latest_stats, stats_lines, rpc, pushed_lines,
           handler_storage, callbacks, events_processed, events_stored,
           events_dropped, callbacks_invoked, dispatched, stored_events,
           client_buffer, buffer_size, socket_bytes, lines_written,
           lines_returned, thr, eve_sock, api_sock, received, joining,
           clients, client_count, conn_rejected>>
nvars == <<clients, client_count, conn_rejected>>
vars == <<qvars, wvars, svars, avars, evars>>

\* the elements of a sequence
Range(seq) == {seq[i] : i \in 1..Len(seq)}

(***************************************************************************)
(* Part I - event queue                                                    *)
(***************************************************************************)

\* queue->max_size = max_size > 0 ? max_size : EVENT_QUEUE_DEFAULT_SIZE
EVENT_QUEUE_DEFAULT_SIZE == 4096
max_size == IF QueueCap > 0 THEN QueueCap ELSE EVENT_QUEUE_DEFAULT_SIZE

\* vnids_event_queue_create: a stub node, head = tail = stub, counters 0.
StubNode == 1

QueueInit ==
    /\ nxt = [n \in NodeIds |-> NULL]
    /\ evt = [n \in NodeIds |-> NoEvent]
    /\ live = {StubNode}
    /\ freedNodes = {}
    /\ head = StubNode
    /\ tail = StubNode
    /\ enqueue_count = 0
    /\ dequeue_count = 0
    /\ drop_count = 0
    /\ current_size = 0
    /\ ppc = [p \in Producers |-> "idle"]
    /\ pnode = [p \in Producers |-> NULL]
    /\ pprev = [p \in Producers |-> NULL]
    /\ pevent = [p \in Producers |-> NoEvent]
    /\ pcalls = [p \in Producers |-> 0]
    /\ accepted = {}
    /\ refused = {}
    /\ stop_accepted = {}
    /\ cpc = "idle"
    /\ cevent = NoEvent
    /\ phase = "run"
    /\ delivered = <<>>
    /\ drained = <<>>
    /\ lastPop = "none"
    /\ qrunning = TRUE

\* The nodes the consumer can reach from head, in list order.
RECURSIVE ChainFrom(_)
ChainFrom(n) ==
    IF nxt[n] = NULL THEN <<>> ELSE <<nxt[n]>> \o ChainFrom(nxt[n])

\* Number of events held in the queue (linked and not yet popped).
Held == Len(ChainFrom(head))

\* vnids_event_queue_is_empty: head->next == NULL
vnids_event_queue_is_empty == nxt[head] = NULL

\* vnids_event_queue_size: the current_size counter
EnqueuedSoFar == enqueue_count
vnids_event_queue_size == current_size

FreshNode == CHOOSE n \in NodeIds : n \notin (live \cup freedNodes)

\* push: `if (current >= queue->max_size)`
IsFullLate(current) == current > max_size
IsFull(current) == current >= max_size

\* push: `atomic_store(&prev->next, node)`
LinkNextPushFront(nx, prev, node) ==
    [nx EXCEPT ![node] = nx[head], ![head] = node]
LinkNext(nx, prev, node) == [nx EXCEPT ![prev] = node]

\* push: `atomic_exchange(&queue->tail, node)` - the new value of tail
NewTailStale(t, node) == t
NewTail(t, node) == node

\* pop: `atomic_store(&queue->head, next)` - the new value of head
PopNewHead(h, n) == n

\* pushes started so far by producers 1..n (the model stops at MaxPush)
RECURSIVE CallsUpTo(_)
CallsUpTo(n) == IF n = 0 THEN 0 ELSE pcalls[n] + CallsUpTo(n - 1)

qpvars == <<ppc, pnode, pprev, pevent, pcalls, accepted, refused>>
qcvars == <<cpc, cevent, phase, delivered, drained, lastPop>>
qlist == <<nxt, evt, live, freedNodes, head, tail>>

\* push, lines 98-107: load current_size; when full count a drop, return -1.
PushCheck(p) ==
    /\ UNCHANGED <<wvars, svars, avars, evars, stop_accepted>>
    /\ ppc[p] = "idle"
    /\ qrunning
    /\ CallsUpTo(NumProducers) < MaxPush
    /\ LET e == <<p, pcalls[p] + 1>> IN
       /\ pcalls' = [pcalls EXCEPT ![p] = @ + 1]
       /\ IF IsFull(current_size)
            THEN /\ drop_count' = drop_count + 1
                 /\ refused' = refused \cup {e}
                 /\ UNCHANGED <<ppc, pevent>>
            ELSE /\ ppc' = [ppc EXCEPT ![p] = "alloc"]
                 /\ pevent' = [pevent EXCEPT ![p] = e]
                 /\ UNCHANGED <<drop_count, refused>>
    /\ UNCHANGED <<qlist, enqueue_count, dequeue_count, current_size,
                   pnode, pprev, accepted, qcvars, qrunning>>

\* push, lines 110-117: malloc the node (may fail: drop, return -1),
\* copy the event in, node->next = NULL.
PushAlloc(p) ==
    /\ UNCHANGED <<wvars, svars, avars, evars, stop_accepted>>
    /\ ppc[p] = "alloc"
    /\ \E ok \in BOOLEAN :
         IF ok
           THEN /\ live' = live \cup {FreshNode}
                /\ evt' = [evt EXCEPT ![FreshNode] = pevent[p]]
                /\ nxt' = [nxt EXCEPT ![FreshNode] = NULL]
                /\ pnode' = [pnode EXCEPT ![p] = FreshNode]
                /\ ppc' = [ppc EXCEPT ![p] = "xchg"]
                /\ UNCHANGED <<drop_count, refused, pevent>>
           ELSE /\ drop_count' = drop_count + 1
                /\ refused' = refused \cup {pevent[p]}
                /\ pevent' = [pevent EXCEPT ![p] = NoEvent]
                /\ ppc' = [ppc EXCEPT ![p] = "idle"]
                /\ UNCHANGED <<live, evt, nxt, pnode>>
    /\ UNCHANGED <<freedNodes, head, tail, enqueue_count, dequeue_count,
                   current_size, pprev, pcalls, accepted, qcvars, qrunning>>

\* push, line 120: prev = atomic_exchange(&queue->tail, node)
PushExchange(p) ==
    /\ UNCHANGED <<wvars, svars, avars, evars, stop_accepted>>
    /\ ppc[p] = "xchg"
    /\ pprev' = [pprev EXCEPT ![p] = tail]
    /\ tail' = NewTail(tail, pnode[p])
    /\ ppc' = [ppc EXCEPT ![p] = "link"]
    /\ UNCHANGED <<nxt, evt, live, freedNodes, head, enqueue_count,
                   dequeue_count, drop_count, current_size, pnode, pevent,
                   pcalls, accepted, refused, qcvars, qrunning>>

\* push, line 121: atomic_store(&prev->next, node)
PushLink(p) ==
    /\ UNCHANGED <<wvars, svars, avars, evars, stop_accepted>>
    /\ ppc[p] = "link"
    /\ nxt' = LinkNext(nxt, pprev[p], pnode[p])
    /\ ppc' = [ppc EXCEPT ![p] = "size"]
    /\ UNCHANGED <<evt, live, freedNodes, head, tail, enqueue_count,
                   dequeue_count, drop_count, current_size, pnode, pprev,
                   pevent, pcalls, accepted, refused, qcvars, qrunning>>

\* push, line 123: atomic_fetch_add(&queue->current_size, 1)
PushIncSize(p) ==
    /\ UNCHANGED <<wvars, svars, avars, evars, stop_accepted>>
    /\ ppc[p] = "size"
    /\ current_size' = WrapSize(current_size + 1)
    /\ ppc' = [ppc EXCEPT ![p] = "count"]
    /\ UNCHANGED <<qlist, enqueue_count, dequeue_count, drop_count, pnode,
                   pprev, pevent, pcalls, accepted, refused, qcvars,
                   qrunning>>

\* push, lines 124-126: atomic_fetch_add(&queue->enqueue_count, 1); return 0
PushIncCount(p) ==
    /\ UNCHANGED <<wvars, svars, avars, evars, stop_accepted>>
    /\ ppc[p] = "count"
    /\ enqueue_count' = enqueue_count + 1
    /\ accepted' = accepted \cup {pevent[p]}
    /\ pevent' = [pevent EXCEPT ![p] = NoEvent]
    /\ pnode' = [pnode EXCEPT ![p] = NULL]
    /\ pprev' = [pprev EXCEPT ![p] = NULL]
    /\ ppc' = [ppc EXCEPT ![p] = "idle"]
    /\ UNCHANGED <<qlist, dequeue_count, drop_count, current_size, pcalls,
                   refused, qcvars, qrunning>>

\* The callers of pop: event_handler_thread while running ("run"), its
\* drain loop after running became false ("drain"), and
\* vnids_event_queue_destroy after every thread was joined ("destroy").
PopCaller == phase \in {"run", "drain", "destroy"}

\* pop, lines 139-154, on a non-empty queue: load head and head->next,
\* copy the payload out of next, head := next, free the old head.
PopTake ==
    /\ UNCHANGED <<wvars, svars, avars, evars, stop_accepted>>
    /\ cpc = "idle"
    /\ PopCaller
    /\ phase = "run" => qrunning
    /\ nxt[head] # NULL
    /\ cevent' = evt[nxt[head]]
    /\ head' = PopNewHead(head, nxt[head])
    /\ live' = live \ {head}
    /\ freedNodes' = freedNodes \cup {head}
    /\ cpc' = "dec"
    /\ UNCHANGED <<nxt, evt, tail, enqueue_count, dequeue_count, drop_count,
                   current_size, qpvars, phase, delivered, drained, lastPop,
                   qrunning>>

\* pop, line 156: atomic_fetch_sub(&queue->current_size, 1)
PopDecSize ==
    /\ UNCHANGED <<wvars, svars, avars, evars, stop_accepted>>
    /\ cpc = "dec"
    /\ current_size' = WrapSize(current_size - 1)
    /\ cpc' = "cnt"
    /\ UNCHANGED <<qlist, enqueue_count, dequeue_count, drop_count, qpvars,
                   cevent, phase, delivered, drained, lastPop, qrunning>>

\* pop, lines 157-159: atomic_fetch_add(&queue->dequeue_count, 1); return 0.
\* The handler thread processes the event; destroy discards it.
PopIncCount ==
    /\ UNCHANGED <<wvars, svars, avars, evars, stop_accepted>>
    /\ cpc = "cnt"
    /\ dequeue_count' = dequeue_count + 1
    /\ IF phase = "destroy"
         THEN drained' = Append(drained, cevent) /\ UNCHANGED delivered
         ELSE delivered' = Append(delivered, cevent) /\ UNCHANGED drained
    /\ cevent' = NoEvent
    /\ lastPop' = "ok"
    /\ cpc' = "idle"
    /\ UNCHANGED <<qlist, enqueue_count, drop_count, current_size, qpvars,
                   phase, qrunning>>

\* pop, lines 142-145, on an empty queue: return -1.  The handler loop
\* sleeps and polls again; the drain loops end.
PopEmpty ==
    /\ UNCHANGED <<wvars, svars, avars, evars, stop_accepted>>
    /\ cpc = "idle"
    /\ PopCaller
    /\ phase = "run" => qrunning
    /\ nxt[head] = NULL
    /\ lastPop' = "empty"
    /\ phase' = CASE phase = "run" -> "run"
                  [] phase = "drain" -> "exited"
                  [] phase = "destroy" -> "free"
    /\ phase = "run" => lastPop # "empty"
    /\ UNCHANGED <<qlist, enqueue_count, dequeue_count, drop_count,
                   current_size, qpvars, cpc, cevent, delivered, drained,
                   qrunning>>

\* vnids_event_handler_stop / vnidsd_shutdown: running := false
QueueShutdown ==
    /\ UNCHANGED <<wvars, svars, avars, evars>>
    /\ qrunning
    /\ qrunning' = FALSE
    /\ stop_accepted' = accepted
    /\ UNCHANGED <<qlist, enqueue_count, dequeue_count, drop_count,
                   current_size, qpvars, qcvars>>

\* event_handler_thread: `while (handler->running)` ends, drain begins.
HandlerLeaveLoop ==
    /\ UNCHANGED <<wvars, svars, avars, evars, stop_accepted>>
    /\ phase = "run"
    /\ cpc = "idle"
    /\ ~qrunning
    /\ phase' = "drain"
    /\ UNCHANGED <<qlist, enqueue_count, dequeue_count, drop_count,
                   current_size, qpvars, cpc, cevent, delivered, drained,
                   lastPop, qrunning>>

\* vnidsd_destroy: every thread joined, then vnids_event_queue_destroy.
QueueDestroy ==
    /\ UNCHANGED <<wvars, svars, avars, evars, stop_accepted>>
    /\ phase = "exited"
    /\ ~qrunning
    /\ \A p \in Producers : ppc[p] = "idle"
    /\ phase' = "destroy"
    /\ UNCHANGED <<qlist, enqueue_count, dequeue_count, drop_count,
                   current_size, qpvars, cpc, cevent, delivered, drained,
                   lastPop, qrunning>>

\* vnids_event_queue_destroy, lines 88-89, after its drain loop:
\* free(queue->stub); free(queue).  queue->stub still names the node
\* allocated by create.  Freeing a node that pop has freed already is
\* undefined: the allocator aborts the process or goes on.
QueueFreeStub ==
    /\ UNCHANGED <<wvars, svars, avars, evars, stop_accepted>>
    /\ phase = "free"
    /\ live' = live \ {StubNode}
    /\ freedNodes' = freedNodes \cup {StubNode}
    /\ phase' \in IF StubNode \in freedNodes THEN {"done", "aborted"}
                                            ELSE {"done"}
    /\ UNCHANGED <<nxt, evt, head, tail, enqueue_count, dequeue_count,
                   drop_count, current_size, qpvars, cpc, cevent, delivered,
                   drained, lastPop, qrunning>>

QueueNext ==
    \/ \E p \in Producers : PushCheck(p)
    \/ \E p \in Producers : PushAlloc(p)
    \/ \E p \in Producers : PushExchange(p)
    \/ \E p \in Producers : PushLink(p)
    \/ \E p \in Producers : PushIncSize(p)
    \/ \E p \in Producers : PushIncCount(p)
    \/ PopTake
    \/ PopDecSize
    \/ PopIncCount
    \/ PopEmpty
    \/ QueueShutdown
    \/ HandlerLeaveLoop
    \/ QueueDestroy
    \/ QueueFreeStub

(***************************************************************************)
(* Part II - watchdog (supervisor of the Suricata subprocess)              *)
(***************************************************************************)

WATCHDOG_MAX_RESTART_ATTEMPTS == 5
\* vnids_watchdog_create: max_restart_attempts and auto_restart are set
\* once and never written again.
max_restart_attempts == WATCHDOG_MAX_RESTART_ATTEMPTS
auto_restart == TRUE

\* vnids_watchdog_state_t
WATCHDOG_STATE_STOPPED == "stopped"
WATCHDOG_STATE_STARTING == "starting"
WATCHDOG_STATE_RUNNING == "running"
WATCHDOG_STATE_RESTARTING == "restarting"
WATCHDOG_STATE_FAILED == "failed"

\* suricata_pid: -1 when no subprocess handle is held, else the child's pid
NoPid == -1
ChildPid == 1

\* `fails` counts consecutive failures up to this cap
FailsCap == max_restart_attempts + 2

\* vnids_watchdog_create; the process starts with SIGCHLD either at its
\* default disposition (an exited child stays a zombie until it is waited
\* for) or ignored (inherited through exec: exited children are reaped
\* by the kernel at once).
\* stop_suricata returning at once (`if (wd->suricata_pid <= 0) return`)
NoCalls == [term |-> FALSE, waited |-> 0, kill |-> FALSE, reaped |-> FALSE]

WatchdogInit ==
    /\ state = WATCHDOG_STATE_STOPPED
    /\ restart_count = 0
    /\ suricata_pid = NoPid
    /\ running = FALSE
    /\ thread_started = FALSE
    /\ wpc = "none"
    /\ spc = "idle"
    /\ proc = "none"
    /\ sigchldIgnored \in BOOLEAN
    /\ fails = 0
    /\ lastEvent = "none"
    /\ prevEvent = "none"
    /\ sinceStop = FALSE
    /\ idleStops = 0
    /\ wakeTick = 0
    /\ backoff_ms = 0
    /\ stop_calls = NoCalls

\* The watchdog mutex is held by watchdog_thread except inside
\* pthread_cond_timedwait, inside the backoff usleep and inside the final
\* stop_suricata; a public call can take it only then.
MutexFree == wpc \in {"none", "init", "wait", "backoff", "stopping", "exited"}

\* kill(pid, 0) == 0: the process entry exists (running or zombie).
KillSucceeds(pid, pr) == pid > 0 /\ pr \in {"alive", "zombie"}

\* is_suricata_running: the value it returns
IsSuricataRunning(pid, pr) == pid > 0 /\ KillSucceeds(pid, pr)

\* is_suricata_running: wd->suricata_pid after the call
PidAfterProbe(pid, pr) == IF pid > 0 /\ ~KillSucceeds(pid, pr) THEN NoPid ELSE pid

\* is_suricata_running: waitpid(pid, WNOHANG) after a failed kill
ProcAfterProbe(pid, pr) == pr

\* watchdog_thread: `wd->auto_restart && wd->restart_count < wd->max_restart_attempts`
MayRestartOffByOne(cnt) == auto_restart /\ cnt <= max_restart_attempts
MayRestart(cnt) == auto_restart /\ cnt < max_restart_attempts

\* watchdog_thread, lines 416-417: the wait before relaunch number cnt,
\* `WATCHDOG_RESTART_BACKOFF_MS * (1 << (cnt - 1))` capped at 60000.  The
\* int product does not overflow for cnt <= 22; cnt never exceeds
\* max_restart_attempts.
WATCHDOG_RESTART_BACKOFF_MS == 1000
BackoffMsShiftCount(cnt) ==
    LET ms == WATCHDOG_RESTART_BACKOFF_MS * 2 ^ cnt
    IN  IF ms > 60000 THEN 60000 ELSE ms
BackoffMs(cnt) ==
    LET ms == WATCHDOG_RESTART_BACKOFF_MS * 2 ^ (cnt - 1)
    IN  IF ms > 60000 THEN 60000 ELSE ms

\* watchdog_thread, probe found the child alive:
\* `if (wd->state == WATCHDOG_STATE_RUNNING) wd->restart_count = 0`
CountAfterAliveKeep(st, cnt) == cnt
CountAfterAlive(st, cnt) == IF st = WATCHDOG_STATE_RUNNING THEN 0 ELSE cnt

\* watchdog_thread, relaunch failed:
\* `if (wd->restart_count >= wd->max_restart_attempts) wd->state = FAILED`
StateAfterRelaunchFail(st, cnt) ==
    IF cnt >= max_restart_attempts THEN WATCHDOG_STATE_FAILED ELSE st

\* stop_suricata: wd->suricata_pid when it returns
PidAfterStopKeep(pid) == pid
PidAfterStop(pid) == NoPid

\* stop_suricata: the child when it returns.  With a handle held the child
\* gets SIGTERM, then SIGKILL after ten polls, and is waited for; without
\* a handle nothing is signalled.
ProcAfterStop(pid, pr) == IF pid > 0 THEN "none" ELSE pr

\* stop_suricata, lines 315-348: what it does to a child that is found
\* exited at poll number `exits` of the `while (waited < 10)` loop (a larger
\* value: not within the loop).  term: SIGTERM sent; waited: sleeps taken;
\* kill: SIGKILL sent; reaped: a waitpid returned the child.  Once SIGCHLD
\* is ignored an exited child is reaped by the kernel and waitpid fails.
STOP_POLLS == 10
StopSuricata(pid, pr, exits) ==
    IF pid <= 0 THEN NoCalls
    ELSE IF ~KillSucceeds(pid, pr) THEN [NoCalls EXCEPT !.term = TRUE]
    ELSE LET gone == IF pr = "zombie" THEN 1 ELSE exits
         IN  IF gone > STOP_POLLS
               THEN [term |-> TRUE, waited |-> STOP_POLLS, kill |-> TRUE,
                     reaped |-> ~sigchldIgnored]
               ELSE [term |-> TRUE, waited |-> gone - 1,
                     kill |-> sigchldIgnored, reaped |-> ~sigchldIgnored]

\* the child after exit(): a zombie unless SIGCHLD is ignored
ProcAfterExit == IF sigchldIgnored THEN "none" ELSE "zombie"

\* monitor observations after which the child counted as running
AliveEvents == {"launch_ok", "relaunch_ok", "probe_alive"}

Bump(n) == IF n < FailsCap THEN n + 1 ELSE n

Observe(e) == lastEvent' = e /\ prevEvent' = lastEvent

\* start_suricata(wd) called by the monitor; ok = FALSE covers access()
\* and fork() failing, which leave wd->suricata_pid untouched.
StartSuricata(ok) ==
    IF ok THEN suricata_pid' = ChildPid /\ proc' = "alive"
          ELSE UNCHANGED <<suricata_pid, proc>>

\* vnids_watchdog_start, lines 463-500, with the binary and the config
\* configured.  (When pthread_create fails, running is set back to false
\* and no field has changed when the call returns.)
WdStart ==
    /\ UNCHANGED <<qvars, svars, avars, evars, wakeTick, backoff_ms, stop_calls>>
    /\ spc = "idle"
    /\ MutexFree
    /\ ~thread_started
    /\ running' = TRUE
    /\ thread_started' = TRUE
    /\ wpc' = "init"
    /\ sinceStop' = FALSE
    /\ idleStops' = 0
    /\ fails' = 0
    /\ Observe("start")
    /\ UNCHANGED <<state, restart_count, suricata_pid, spc, proc,
                   sigchldIgnored>>

\* watchdog_thread, lines 377-380: lock, state = STARTING
MonBegin ==
    /\ UNCHANGED <<qvars, svars, avars, evars, wakeTick, backoff_ms, stop_calls>>
    /\ wpc = "init"
    /\ state' = WATCHDOG_STATE_STARTING
    /\ wpc' = "launch"
    /\ UNCHANGED <<restart_count, suricata_pid, running, thread_started,
                   spc, proc, sigchldIgnored, fails, lastEvent, prevEvent,
                   sinceStop, idleStops>>

\* watchdog_thread, lines 382-388: the initial launch, then the loop test
MonInitialLaunch ==
    /\ UNCHANGED <<qvars, svars, avars, evars, wakeTick, backoff_ms, stop_calls>>
    /\ wpc = "launch"
    /\ \E ok \in BOOLEAN :
         /\ StartSuricata(ok)
         /\ state' = IF ok THEN WATCHDOG_STATE_RUNNING
                          ELSE WATCHDOG_STATE_FAILED
         /\ fails' = IF ok THEN fails ELSE Bump(fails)
         /\ Observe(IF ok THEN "launch_ok" ELSE "launch_fail")
    /\ wpc' = IF running THEN "wait" ELSE "stopping"
    /\ UNCHANGED <<restart_count, running, thread_started, spc,
                   sigchldIgnored, sinceStop, idleStops>>

\* watchdog_thread, lines 399-445: the timed wait returns, the probe runs
MonWake ==
    /\ UNCHANGED <<qvars, svars, avars, evars>>
    /\ wpc = "wait"
    /\ IF ~running
         THEN /\ wpc' = "stopping"
              /\ UNCHANGED <<state, restart_count, suricata_pid, proc, fails,
                             lastEvent, prevEvent, wakeTick, backoff_ms, stop_calls>>
         ELSE IF ~IsSuricataRunning(suricata_pid, proc)
           THEN /\ wakeTick' = 1 - wakeTick
                /\ suricata_pid' = PidAfterProbe(suricata_pid, proc)
                /\ proc' = ProcAfterProbe(suricata_pid, proc)
                /\ fails' = IF lastEvent \in AliveEvents THEN Bump(fails)
                                                     ELSE fails
                /\ Observe("probe_dead")
                /\ IF MayRestart(restart_count)
                     THEN /\ state' = WATCHDOG_STATE_RESTARTING
                          /\ restart_count' = restart_count + 1
                          /\ backoff_ms' = BackoffMs(restart_count')
                          /\ UNCHANGED stop_calls
                          /\ wpc' = "backoff"
                     ELSE /\ state' = IF state = WATCHDOG_STATE_RUNNING
                                        THEN WATCHDOG_STATE_STOPPED
                                        ELSE state
                          /\ UNCHANGED <<restart_count, backoff_ms, stop_calls>>
                          /\ wpc' = "wait"
           ELSE /\ wakeTick' = 1 - wakeTick
                /\ restart_count' = CountAfterAlive(state, restart_count)
                /\ fails' = 0
                /\ Observe("probe_alive")
                /\ wpc' = "wait"
                /\ UNCHANGED <<state, suricata_pid, proc, backoff_ms, stop_calls>>
    /\ UNCHANGED <<running, thread_started, spc, sigchldIgnored, sinceStop, idleStops>>

\* watchdog_thread, lines 424-437: the backoff sleep is over, relaunch
MonRelaunch ==
    /\ UNCHANGED <<qvars, svars, avars, evars, wakeTick, backoff_ms, stop_calls>>
    /\ wpc = "backoff"
    /\ IF ~running
         THEN /\ wpc' = "stopping"
              /\ UNCHANGED <<state, suricata_pid, proc, fails, lastEvent,
                             prevEvent>>
         ELSE /\ \E ok \in BOOLEAN :
                   /\ StartSuricata(ok)
                   /\ state' = IF ok THEN WATCHDOG_STATE_RUNNING
                                    ELSE StateAfterRelaunchFail(state,
                                                                restart_count)
                   /\ fails' = IF ok THEN fails ELSE Bump(fails)
                   /\ Observe(IF ok THEN "relaunch_ok" ELSE "relaunch_fail")
              /\ wpc' = "wait"
    /\ UNCHANGED <<restart_count, running, thread_started, spc,
                   sigchldIgnored, sinceStop, idleStops>>

\* watchdog_thread, lines 448-449: unlock, stop_suricata(wd)
MonStopSuricata ==
    /\ UNCHANGED <<qvars, svars, avars, evars, wakeTick, backoff_ms>>
    /\ wpc = "stopping"
    /\ \E exits \in {1, STOP_POLLS, STOP_POLLS + 1} :
          stop_calls' = StopSuricata(suricata_pid, proc, exits)
    /\ suricata_pid' = PidAfterStop(suricata_pid)
    /\ proc' = ProcAfterStop(suricata_pid, proc)
    /\ wpc' = "final"
    /\ UNCHANGED <<state, restart_count, running, thread_started, spc,
                   sigchldIgnored, fails, lastEvent, prevEvent, sinceStop, idleStops>>

\* watchdog_thread, lines 450-457: lock, state = STOPPED, unlock, return
MonFinish ==
    /\ UNCHANGED <<qvars, svars, avars, evars, wakeTick, backoff_ms, stop_calls>>
    /\ wpc = "final"
    /\ state' = WATCHDOG_STATE_STOPPED
    /\ wpc' = "exited"
    /\ UNCHANGED <<restart_count, suricata_pid, running, thread_started,
                   spc, proc, sigchldIgnored, fails, lastEvent, prevEvent,
                   sinceStop, idleStops>>

\* vnids_watchdog_stop, lines 508-518: nothing to do without a thread,
\* else running = false, signal the condition, go and join
WdStopBegin ==
    /\ UNCHANGED <<qvars, svars, avars, evars, wakeTick, backoff_ms, stop_calls>>
    /\ spc = "idle"
    /\ MutexFree
    /\ IF ~thread_started
         THEN /\ idleStops < MaxIdleStops
              /\ sinceStop' = TRUE
              /\ idleStops' = idleStops + 1
              /\ UNCHANGED <<running, spc>>
         ELSE /\ running' = FALSE
              /\ spc' = "join"
              /\ UNCHANGED <<sinceStop, idleStops>>
    /\ UNCHANGED <<state, restart_count, suricata_pid, thread_started, wpc,
                   proc, sigchldIgnored, fails, lastEvent, prevEvent>>

\* vnids_watchdog_stop, lines 520-526: pthread_join returned
WdStopJoin ==
    /\ UNCHANGED <<qvars, svars, avars, evars, wakeTick, backoff_ms, stop_calls>>
    /\ spc = "join"
    /\ wpc = "exited"
    /\ thread_started' = FALSE
    /\ wpc' = "none"
    /\ spc' = "idle"
    /\ sinceStop' = TRUE
    /\ idleStops' = 0
    /\ UNCHANGED <<state, restart_count, suricata_pid, running, proc,
                   sigchldIgnored, fails, lastEvent, prevEvent>>

\* vnids_watchdog_is_suricata_running, lines 532-540 (status requests)
WdIsRunning ==
    /\ UNCHANGED <<qvars, svars, avars, evars, wakeTick, backoff_ms, stop_calls>>
    /\ MutexFree
    /\ suricata_pid > 0
    /\ ~KillSucceeds(suricata_pid, proc)
    /\ suricata_pid' = PidAfterProbe(suricata_pid, proc)
    /\ proc' = ProcAfterProbe(suricata_pid, proc)
    /\ UNCHANGED <<state, restart_count, running, thread_started, wpc, spc,
                   sigchldIgnored, fails, lastEvent, prevEvent, sinceStop, idleStops>>

\* the subprocess exits on its own (crash, exec failure, external kill)
ChildExit ==
    /\ UNCHANGED <<qvars, svars, avars, evars, wakeTick, backoff_ms, stop_calls>>
    /\ proc = "alive"
    /\ proc' = ProcAfterExit
    /\ UNCHANGED <<state, restart_count, suricata_pid, running,
                   thread_started, wpc, spc, sigchldIgnored, fails,
                   lastEvent, prevEvent, sinceStop, idleStops>>

Monitor ==
    \/ MonBegin
    \/ MonInitialLaunch
    \/ MonWake
    \/ MonRelaunch
    \/ MonStopSuricata
    \/ MonFinish

WatchdogNext ==
    \/ WdStart
    \/ MonBegin
    \/ MonInitialLaunch
    \/ MonWake
    \/ MonRelaunch
    \/ MonStopSuricata
    \/ MonFinish
    \/ WdStopBegin
    \/ WdStopJoin
    \/ WdIsRunning
    \/ ChildExit

(***************************************************************************)
(* Part III - event store (vnidsd/src/storage.c)                           *)
(*                                                                         *)
(* Every entry point holds storage->mutex from its first statement to its  *)
(* return, so each call is one action.  The database is the events table   *)
(* of a freshly created file; the count and delete statements, which run   *)
(* inside the insert, succeed whenever they are stepped.                   *)
(***************************************************************************)
\* storage.c keeps 100000 rows, checks every 1000th insert and deletes 1000
\* rows beyond the excess; the model keeps the arithmetic with small numbers.
STORAGE_DEFAULT_MAX_EVENTS == 3
STORAGE_CLEANUP_THRESHOLD == 2
CleanupPeriod == 2

Timestamps == 1..MaxTime

StorageInit ==
    /\ rows = {}
    /\ seq_id = 0
    /\ max_events = STORAGE_DEFAULT_MAX_EVENTS
    /\ events_inserted = 0
    /\ events_deleted = 0
    /\ last_call = "none"
    /\ capHigh = STORAGE_DEFAULT_MAX_EVENTS
    /\ events_out = <<>>
    /\ query_n = -1

\* id INTEGER PRIMARY KEY AUTOINCREMENT: one more than the largest id ever used
AutoIncrement(last) == last + 1

\* ORDER BY timestamp DESC, id DESC: a comes before b
RecentBeforeTimeAsc(a, b) ==
    \/ a.timestamp < b.timestamp
    \/ a.timestamp = b.timestamp /\ a.id > b.id
RecentBefore(a, b) ==
    \/ a.timestamp > b.timestamp
    \/ a.timestamp = b.timestamp /\ a.id > b.id

\* ORDER BY timestamp ASC, id ASC: a comes before b
OldBefore(a, b) ==
    \/ a.timestamp < b.timestamp
    \/ a.timestamp = b.timestamp /\ a.id < b.id

RECURSIVE SortRecent(_)
SortRecent(tbl) ==
    IF tbl = {} THEN <<>>
    ELSE LET first == CHOOSE r \in tbl : \A o \in tbl \ {r} : RecentBefore(r, o)
         IN  <<first>> \o SortRecent(tbl \ {first})

\* LIMIT ? together with the loop `while (*count < max_count)`
LimitPlusOne(sorted, n) ==
    SubSeq(sorted, 1, IF n + 1 < Len(sorted) THEN n + 1 ELSE Len(sorted))
Limit(sorted, n) ==
    SubSeq(sorted, 1, IF n < Len(sorted) THEN n ELSE Len(sorted))

\* SELECT id FROM events ORDER BY timestamp ASC, id ASC LIMIT k
OldestRows(tbl, k) ==
    {r \in tbl : Cardinality({o \in tbl : OldBefore(o, r)}) < k}

\* events_inserted % 1000 == 0
CheckDue(n) == n % CleanupPeriod = 0

\* the negation of `count <= max_events`
NeedsCleanupLate(count, cap) == count > cap + STORAGE_CLEANUP_THRESHOLD
NeedsCleanup(count, cap) == count > cap

\* to_delete = count - max_events + cleanup_batch_size
ToDeleteBatchOnly(count, cap) == STORAGE_CLEANUP_THRESHOLD
ToDelete(count, cap) == count - cap + STORAGE_CLEANUP_THRESHOLD

\* storage_cleanup_if_needed: the table it leaves
CleanupIfNeeded(tbl, cap) ==
    LET count == Cardinality(tbl)
    IN  IF NeedsCleanup(count, cap)
        THEN tbl \ OldestRows(tbl, ToDelete(count, cap))
        ELSE tbl

\* vnids_storage_insert_event; ok = FALSE: sqlite3_step of the insert fails
InsertEvent(ts, ok) ==
    /\ events_inserted < MaxInserts
    /\ events_out' = <<>>
    /\ query_n' = -1
    /\ UNCHANGED <<max_events, capHigh>>
    /\ IF ~ok
       THEN /\ last_call' = "insert_failed"
            /\ UNCHANGED <<rows, seq_id, events_inserted, events_deleted>>
       ELSE LET id == AutoIncrement(seq_id)
                n == events_inserted + 1
                ins == rows \cup {[id |-> id, timestamp |-> ts, wr |-> n]}
                kept == IF CheckDue(n) THEN CleanupIfNeeded(ins, max_events)
                        ELSE ins
            IN  /\ rows' = kept
                /\ seq_id' = id
                /\ events_inserted' = n
                /\ events_deleted' = events_deleted + Cardinality(ins \ kept)
                /\ last_call' = IF CheckDue(n) THEN "insert_checked"
                                ELSE "insert"

\* vnids_storage_insert_event called on its own
StorageInsert(ts, ok) ==
    /\ UNCHANGED <<qvars, wvars, avars, evars>>
    /\ InsertEvent(ts, ok)

\* vnids_storage_set_max_events
StorageSetMaxEvents(n) ==
    /\ UNCHANGED <<qvars, wvars, avars, evars>>
    /\ max_events' = n
    /\ capHigh' = IF n > capHigh THEN n ELSE capHigh
    /\ last_call' = "set_max_events"
    /\ events_out' = <<>>
    /\ query_n' = -1
    /\ UNCHANGED <<rows, seq_id, events_inserted, events_deleted>>

\* vnids_storage_query_recent
StorageQueryRecent(n) ==
    /\ UNCHANGED <<qvars, wvars, avars, evars>>
    /\ events_out' = Limit(SortRecent(rows), n)
    /\ query_n' = n
    /\ last_call' = "query_recent"
    /\ UNCHANGED <<rows, seq_id, max_events, events_inserted, events_deleted,
                   capHigh>>

StoreNext ==
    \/ \E ts \in Timestamps, ok \in BOOLEAN : StorageInsert(ts, ok)
    \/ \E n \in 0..MaxCap : StorageSetMaxEvents(n)
    \/ \E n \in 0..MaxQuery : StorageQueryRecent(n)


(***************************************************************************)
(* Part IV - control server (API server of vnidsd/src/config.c, control    *)
(* commands of vnidsd/src/watchdog.c, request and response JSON)           *)
(*                                                                         *)
(* One client session. The server thread is followed through               *)
(* handle_client_data one recv, one framing step and one send at a time,   *)
(* so that the client, a signal and the daemon's teardown can act in       *)
(* between. send() is taken to succeed (process_request ignores its        *)
(* result).                                                                *)
(***************************************************************************)
\* config.c stages requests in a buffer of 65536 bytes; the model keeps the
\* arithmetic with a small buffer.
API_BUFFER_SIZE == 11
PREFIX_LEN == 4
MaxBody == API_BUFFER_SIZE - PREFIX_LEN
\* process_request hands the parser `char params[4096]`; small here as well
PARAMS_SIZE == 4

VNIDS_IPC_ERR_NONE == 0
VNIDS_IPC_ERR_INVALID_COMMAND == 1
VNIDS_IPC_ERR_INVALID_PARAMS == 2
VNIDS_IPC_ERR_INVALID_CONFIG_KEY == 3

\* vnids_command_t by command string
CommandCodes ==
    [reload_rules |-> 0, get_stats |-> 1, set_config |-> 2, shutdown |-> 3,
     status |-> 4, list_rules |-> 5, list_events |-> 6, validate_rules |-> 7]

\* The request texts the client may write: whether the text parses as JSON,
\* its "command", the "key" of its params, the length of its params printed
\* as JSON, and its length in bytes.  Texts 7 and 8 are a status request
\* padded to the largest and to the smallest refused length; text 9 is text
\* 4 with a long "value".
RequestTexts ==
    << [json |-> TRUE,  command |-> "status",     key |-> "",
        plen |-> 0, len |-> 1],
       [json |-> TRUE,  command |-> "reboot",     key |-> "",
        plen |-> 0, len |-> 2],
       [json |-> TRUE,  command |-> "set_config", key |-> "log_level",
        plen |-> 2, len |-> 3],
       [json |-> TRUE,  command |-> "set_config", key |-> "colour",
        plen |-> 2, len |-> 3],
       [json |-> TRUE,  command |-> "shutdown",   key |-> "",
        plen |-> 0, len |-> 1],
       [json |-> FALSE, command |-> "",           key |-> "",
        plen |-> 0, len |-> 2],
       [json |-> TRUE,  command |-> "status",     key |-> "",
        plen |-> 0, len |-> MaxBody],
       [json |-> TRUE,  command |-> "status",     key |-> "",
        plen |-> 0, len |-> MaxBody + 1],
       [json |-> TRUE,  command |-> "set_config", key |-> "colour",
        plen |-> PARAMS_SIZE + 1, len |-> PARAMS_SIZE + 2] >>

\* the bytes of request text k: its first byte tells the texts apart
BodyBytes(k) == <<k>> \o [i \in 1..(RequestTexts[k].len - 1) |-> 0]

\* htonl(len) copied out byte by byte
EncodeLen(n) ==
    <<(n \div 16777216) % 256, (n \div 65536) % 256, (n \div 256) % 256, n % 256>>

\* memcpy of the first four staged bytes, then ntohl
DecodeLen(b) == ((b[1] * 256 + b[2]) * 256 + b[3]) * 256 + b[4]

NoResponse == [success |-> FALSE, error_code |-> -1, message |-> ""]

ApiInit ==
    /\ wire = <<>>
    /\ peer_closed = FALSE
    /\ sent = <<>>
    /\ active = TRUE
    /\ recv_buffer = <<>>
    /\ errors = 0
    /\ requests_processed = 0
    /\ apc = "recv"
    /\ pending = NoResponse
    /\ log = <<>>
    /\ shutdown_requested = FALSE
    /\ daemon_running = TRUE
    /\ server_running = TRUE
    /\ api_thread_started = TRUE
    /\ cfg_values = [k \in {"log_level", "eve_socket", "rules_dir", "max_events",
                            "watchdog_interval", "stats_interval"} |-> 0]

\* cJSON_Parse of the staged message, then the strcmp chain over "command",
\* then strncpy of the printed params into the caller's buffer: `plen` is
\* what arrives there, `whole` tells whether that is all of it
RequestFromJson(msg) ==
    LET known == msg # <<>> /\ msg[1] \in DOMAIN RequestTexts
        text == IF known THEN RequestTexts[msg[1]] ELSE RequestTexts[6]
        fits == text.plen <= PARAMS_SIZE - 1
    IN  IF ~known \/ ~text.json \/ Len(msg) # text.len
        THEN [ok |-> FALSE, cmd |-> CommandCodes.status, key |-> "",
              plen |-> 0, whole |-> TRUE]
        ELSE [ok |-> TRUE,
              cmd |-> IF text.command \in DOMAIN CommandCodes
                      THEN CommandCodes[text.command]
                      ELSE CommandCodes.status,
              key |-> text.key,
              plen |-> IF fits THEN text.plen ELSE PARAMS_SIZE - 1,
              whole |-> fits]

\* vnids_response_to_json
ResponseToJson(error, message) ==
    [success |-> error = VNIDS_IPC_ERR_NONE, error_code |-> error,
     message |-> message]

\* handle_set_config: the whitelist of keys
ValidKeys ==
    {"log_level", "eve_socket", "rules_dir", "max_events",
     "watchdog_interval", "stats_interval"}

\* handle_set_config: empty params, then vnids_parse_config_param (it
\* fails on params cut short), then the whitelist
HandleSetConfig(req) ==
    IF req.plen = 0
    THEN ResponseToJson(VNIDS_IPC_ERR_INVALID_PARAMS, "Missing parameters")
    ELSE IF ~req.whole
    THEN ResponseToJson(VNIDS_IPC_ERR_INVALID_PARAMS,
                        "Invalid parameter format")
    ELSE IF req.key \in ValidKeys
    THEN ResponseToJson(VNIDS_IPC_ERR_NONE, "Configuration updated")
    ELSE ResponseToJson(VNIDS_IPC_ERR_INVALID_CONFIG_KEY,
                        "Unknown configuration key")

\* vnids_control_process: the response of the handler the switch selects
\* (daemon context present, reload and stats calls succeed)
ControlProcess(req) ==
    CASE req.cmd = CommandCodes.set_config -> HandleSetConfig(req)
      [] req.cmd = CommandCodes.shutdown ->
            ResponseToJson(VNIDS_IPC_ERR_NONE, "Shutdown initiated")
      [] req.cmd = CommandCodes.status ->
            [success |-> TRUE, error_code |-> 0, message |-> "status"]
      [] req.cmd \in {CommandCodes.reload_rules, CommandCodes.get_stats,
                      CommandCodes.list_rules, CommandCodes.list_events,
                      CommandCodes.validate_rules} ->
            ResponseToJson(VNIDS_IPC_ERR_NONE, "done")
      [] OTHER -> ResponseToJson(VNIDS_IPC_ERR_INVALID_COMMAND,
                                 "Unknown command")

\* recv(fd, buf + recv_used, sizeof(buf) - recv_used - 1): room for the call
RecvSpace == API_BUFFER_SIZE - Len(recv_buffer) - 1

\* the client writes request text k, prefix first
ClientSend(k) ==
    /\ UNCHANGED <<qvars, wvars, svars, evars>>
    /\ active /\ ~peer_closed
    /\ Len(sent) < MaxRequests
    /\ wire' = wire \o EncodeLen(RequestTexts[k].len) \o BodyBytes(k)
    /\ sent' = Append(sent, k)
    /\ UNCHANGED <<peer_closed, active, recv_buffer, errors,
                   requests_processed, apc, pending, log, shutdown_requested,
                   daemon_running, server_running, api_thread_started,
                   cfg_values>>

\* the client closes its end
ClientClose ==
    /\ UNCHANGED <<qvars, wvars, svars, evars>>
    /\ active /\ ~peer_closed
    /\ peer_closed' = TRUE
    /\ UNCHANGED <<wire, sent, active, recv_buffer, errors,
                   requests_processed, apc, pending, log, shutdown_requested,
                   daemon_running, server_running, api_thread_started,
                   cfg_values>>

\* handle_client_data: one recv of the outer loop.  It returns n > 0 bytes,
\* or 0 when the peer has closed and nothing is left to read, or 0 when it
\* is called with no room while bytes are waiting; 0 closes the session.
\* (EAGAIN leaves the loop and changes nothing.)
ApiRecv(n) ==
    /\ UNCHANGED <<qvars, wvars, svars, evars>>
    /\ apc = "recv" /\ active
    /\ IF RecvSpace > 0 /\ wire # <<>>
       THEN /\ n >= 1 /\ n <= RecvSpace /\ n <= Len(wire)
            /\ recv_buffer' = recv_buffer \o SubSeq(wire, 1, n)
            /\ wire' = SubSeq(wire, n + 1, Len(wire))
            /\ apc' = "frame"
            /\ UNCHANGED <<active, log>>
       ELSE /\ n = 0
            /\ \/ RecvSpace = 0 /\ wire # <<>>
               \/ wire = <<>> /\ peer_closed
            /\ active' = FALSE
            /\ recv_buffer' = <<>>
            /\ wire' = <<>>
            /\ log' = Append(log, <<"close", "recv0">>)
            /\ UNCHANGED apc
    /\ UNCHANGED <<peer_closed, sent, errors, requests_processed, pending,
                   shutdown_requested, daemon_running, server_running,
                   api_thread_started, cfg_values>>

\* vnidsd_request_shutdown: the daemon's main loop is told to leave
RequestShutdown(run) == FALSE

\* handle_client_data: one turn of `while (recv_used >= 4)` up to the call
\* of send_response inside process_request: the length check, then
\* vnids_request_from_json and vnids_control_process with the handler's
\* effects (handle_shutdown).
ApiFrame ==
    /\ UNCHANGED <<qvars, wvars, svars, evars>>
    /\ apc = "frame"
    /\ UNCHANGED <<peer_closed, sent, errors, requests_processed,
                   server_running, api_thread_started, cfg_values>>
    /\ IF Len(recv_buffer) < PREFIX_LEN
       THEN /\ apc' = "recv"
            /\ UNCHANGED <<wire, active, recv_buffer, pending, log,
                           shutdown_requested, daemon_running>>
       ELSE LET msg_len == DecodeLen(recv_buffer)
                total_len == PREFIX_LEN + msg_len
                msg == SubSeq(recv_buffer, PREFIX_LEN + 1, total_len)
                req == RequestFromJson(msg)
            IN  IF msg_len > MaxBody
                THEN /\ active' = FALSE
                     /\ recv_buffer' = <<>>
                     /\ wire' = <<>>
                     /\ log' = Append(log, <<"close", "too_large">>)
                     /\ apc' = "recv"
                     /\ UNCHANGED <<pending, shutdown_requested,
                                    daemon_running>>
                ELSE IF Len(recv_buffer) < total_len
                THEN /\ apc' = "recv"
                     /\ UNCHANGED <<wire, active, recv_buffer, pending, log,
                                    shutdown_requested, daemon_running>>
                ELSE /\ apc' = "respond"
                     /\ IF req.ok
                        THEN /\ pending' = ControlProcess(req)
                             /\ log' = Append(log, <<"dispatch", msg, req.cmd>>)
                        ELSE /\ pending' = [success |-> FALSE, error_code |-> -1,
                                           message |-> "Invalid request"]
                             /\ log' = Append(log, <<"dispatch", msg, -1>>)
                     /\ IF req.ok /\ req.cmd = CommandCodes.shutdown
                        THEN /\ shutdown_requested' = TRUE
                             /\ daemon_running' = RequestShutdown(daemon_running)
                        ELSE UNCHANGED <<shutdown_requested, daemon_running>>
                     /\ UNCHANGED <<wire, active, recv_buffer>>

\* process_request from send_response on, then the rest of the turn: the
\* counters, and the staged bytes after the message move to the front
ApiRespond ==
    /\ UNCHANGED <<qvars, wvars, svars, evars>>
    /\ apc = "respond"
    /\ log' = Append(log, <<"response", pending>>)
    /\ IF pending.error_code = -1
       THEN errors' = errors + 1 /\ UNCHANGED requests_processed
       ELSE requests_processed' = requests_processed + 1 /\ UNCHANGED errors
    /\ recv_buffer' = SubSeq(recv_buffer,
                             PREFIX_LEN + DecodeLen(recv_buffer) + 1,
                             Len(recv_buffer))
    /\ pending' = NoResponse
    /\ apc' = "frame"
    /\ UNCHANGED <<wire, peer_closed, sent, active, shutdown_requested,
                   daemon_running, server_running, api_thread_started,
                   cfg_values>>

\* SIGTERM or SIGINT: signal_handler calls vnidsd_shutdown
DaemonSignal ==
    /\ UNCHANGED <<qvars, wvars, svars, evars>>
    /\ daemon_running
    /\ daemon_running' = FALSE
    /\ UNCHANGED <<wire, peer_closed, sent, active, recv_buffer, errors,
                   requests_processed, apc, pending, log, shutdown_requested,
                   server_running, api_thread_started, cfg_values>>

\* vnids_api_server_stop up to pthread_join, called by the daemon's teardown
\* once its main loop has seen running == false
ApiServerStopBegin ==
    /\ UNCHANGED <<qvars, wvars, svars, evars>>
    /\ ~daemon_running
    /\ api_thread_started /\ server_running
    /\ server_running' = FALSE
    /\ UNCHANGED <<wire, peer_closed, sent, active, recv_buffer, errors,
                   requests_processed, apc, pending, log, shutdown_requested,
                   daemon_running, api_thread_started, cfg_values>>

\* api_server_thread: `while (server->running)` is left, the sessions are
\* closed, the thread ends
ApiThreadExit ==
    /\ UNCHANGED <<qvars, wvars, svars, evars>>
    /\ apc = "recv" /\ ~server_running
    /\ apc' = "exited"
    /\ IF active
       THEN /\ active' = FALSE
            /\ recv_buffer' = <<>>
            /\ wire' = <<>>
            /\ log' = Append(log, <<"close", "thread_exit">>)
       ELSE UNCHANGED <<active, recv_buffer, wire, log>>
    /\ UNCHANGED <<peer_closed, sent, errors, requests_processed, pending,
                   shutdown_requested, daemon_running, server_running,
                   api_thread_started, cfg_values>>

\* pthread_join(server->thread) returns
ThreadJoinedNoWait(pc) == TRUE
ThreadJoined(pc) == pc = "exited"

\* vnids_api_server_stop from pthread_join on: the sockets are closed
ApiServerStopJoin ==
    /\ UNCHANGED <<qvars, wvars, svars, evars>>
    /\ api_thread_started /\ ~server_running
    /\ ThreadJoined(apc)
    /\ api_thread_started' = FALSE
    /\ log' = Append(log, <<"stopped", "server">>)
    /\ UNCHANGED <<wire, peer_closed, sent, active, recv_buffer, errors,
                   requests_processed, apc, pending, shutdown_requested,
                   daemon_running, server_running, cfg_values>>

ApiNext ==
    \/ \E k \in DOMAIN RequestTexts : ClientSend(k)
    \/ ClientClose
    \/ \E n \in 0..API_BUFFER_SIZE : ApiRecv(n)
    \/ ApiFrame
    \/ ApiRespond
    \/ DaemonSignal
    \/ ApiServerStopBegin
    \/ ApiThreadExit
    \/ ApiServerStopJoin



(***************************************************************************)
(* Part V - event path: EVE parser (vnidsd/src/config.c)                   *)
(*                                                                         *)
(* A line of the event stream is a record of what its JSON text carries:   *)
(* a string member that is missing is Absent, a number member that is      *)
(* missing is -1.  Strings are short enough for the fields they are copied *)
(* into; rule ids are below 2^31, so that the cast to uint32_t keeps them. *)
(***************************************************************************)
Absent == "<absent>"

\* a line that is not JSON at all
GarbageLine ==
    [json |-> FALSE, event_type |-> Absent, timestamp |-> -1,
     src_ip |-> Absent, src_port |-> -1, dest_ip |-> Absent, dest_port |-> -1,
     proto |-> Absent, app_proto |-> Absent, has_alert |-> FALSE,
     signature_id |-> -1, gid |-> -1, severity |-> -1, signature |-> Absent,
     has_anomaly |-> FALSE, anomaly_type |-> Absent, has_stats |-> FALSE,
     uptime |-> -1, someip_service_id |-> -1, doip_payload_type |-> -1]

\* the lines the parser is given: alerts, flows, stats, an event type the
\* parser does not know ("dns") and lines without event_type, with every
\* optional member present or missing; anomalies; the line that is not JSON
EveLines ==
    [json : {TRUE},
     event_type : {"alert", "flow", "stats", "dns", Absent},
     timestamp : {1},
     src_ip : {Absent, "10.0.0.5"}, src_port : {-1, 1234},
     dest_ip : {"10.0.0.6"}, dest_port : {80},
     proto : {Absent, "TCP", "UDP", "IPV6-ICMP"},
     app_proto : {Absent, "dns"},
     has_alert : BOOLEAN,
     signature_id : {-1, 1000001}, gid : {-1, 3}, severity : {-1, 2, 4},
     signature : {Absent, "TCP SYN flood"},
     has_anomaly : {FALSE}, anomaly_type : {Absent},
     has_stats : BOOLEAN, uptime : {-1},
     someip_service_id : {-1}, doip_payload_type : {-1}]
    \cup
    [json : {TRUE}, event_type : {"anomaly"}, timestamp : {-1, 1},
     src_ip : {"10.0.0.5"}, src_port : {1234},
     dest_ip : {Absent, "10.0.0.6"}, dest_port : {-1, 80},
     proto : {"TCP"}, app_proto : {Absent},
     has_alert : {FALSE},
     signature_id : {-1}, gid : {-1}, severity : {-1}, signature : {Absent},
     has_anomaly : BOOLEAN, anomaly_type : {Absent, "decoder"},
     has_stats : {FALSE}, uptime : {-1},
     someip_service_id : {-1, 0, 4660}, doip_payload_type : {-1, 32769}]
    \cup {GarbageLine}

\* parse_severity
ParseSeverity(priority) ==
    IF priority \in 1..4 THEN priority ELSE 5

\* parse_protocol (strcasecmp; the model writes each name in one case)
ParseProtocol(proto_str, app_proto_str) ==
    LET app == [http |-> 20, tls |-> 21, dns |-> 22, mqtt |-> 23,
                ftp |-> 24, someip |-> 10, doip |-> 11]
        transport == [TCP |-> 1, UDP |-> 2, ICMP |-> 3, IGMP |-> 4]
    IN  IF app_proto_str \in DOMAIN app THEN app[app_proto_str]
        ELSE IF proto_str \in DOMAIN transport THEN transport[proto_str]
        ELSE 1

\* vnids_eve_parse with parse_flow_fields, parse_alert_event,
\* parse_anomaly_event and the two metadata parsers: the return code and
\* the event as the call leaves it
EveParse(line) ==
    LET StrOr(v) == IF v = Absent THEN "" ELSE v
        NumOr(v, def) == IF v = -1 THEN def ELSE v
        zero == [event_type |-> 0, severity |-> 0, protocol |-> 0,
                 src_addr |-> "", dst_addr |-> "", src_port |-> 0,
                 dst_port |-> 0, rule_sid |-> 0, rule_gid |-> 0,
                 message |-> "", timestamp |-> 0]
        stamped == [zero EXCEPT !.timestamp = NumOr(line.timestamp, 0)]
        flow == [stamped EXCEPT
                    !.src_addr = StrOr(line.src_ip),
                    !.dst_addr = StrOr(line.dest_ip),
                    !.src_port = NumOr(line.src_port, 0) % 65536,
                    !.dst_port = NumOr(line.dest_port, 0) % 65536,
                    !.protocol = ParseProtocol(line.proto, line.app_proto)]
        alert == IF line.has_alert
                 THEN [rc |-> 0,
                       event |-> [flow EXCEPT
                           !.event_type = 0,
                           !.rule_sid = NumOr(line.signature_id, 0),
                           !.rule_gid = NumOr(line.gid, 1),
                           !.severity = ParseSeverity(NumOr(line.severity, 4)),
                           !.message = StrOr(line.signature)]]
                 ELSE [rc |-> -1, event |-> [flow EXCEPT !.event_type = 0]]
        anomaly == [rc |-> 0,
                    event |-> [flow EXCEPT
                        !.event_type = 1,
                        !.severity = 3,
                        !.message =
                            IF ~line.has_anomaly THEN ""
                            ELSE IF line.anomaly_type = Absent
                                 THEN "Network anomaly detected"
                                 ELSE line.anomaly_type]]
        typed == CASE line.event_type = "alert" -> alert
                   [] line.event_type = "anomaly" -> anomaly
                   [] line.event_type = "flow" ->
                        [rc |-> -1, event |-> [flow EXCEPT !.event_type = 2]]
                   [] line.event_type = "stats" ->
                        [rc |-> -1, event |-> [flow EXCEPT !.event_type = 3]]
                   [] OTHER ->
                        IF line.has_alert THEN alert
                        ELSE [rc |-> -1, event |-> flow]
        someip == IF NumOr(line.someip_service_id, 0) % 65536 # 0
                  THEN [typed EXCEPT !.event.protocol = 10] ELSE typed
        doip == IF NumOr(line.doip_payload_type, 0) % 65536 # 0
                THEN [someip EXCEPT !.event.protocol = 11] ELSE someip
    IN  IF ~line.json THEN [rc |-> -1, event |-> zero]
        ELSE IF line.event_type = Absent THEN [rc |-> -1, event |-> stamped]
        ELSE IF typed.rc = 0 THEN doip ELSE typed

\* the state before any line was parsed
NoLine == [json |-> FALSE]
ParseInit ==
    /\ eve_line = NoLine
    /\ eve_result = [rc |-> 0]

\* one call of vnids_eve_parse
ParseLine(line) ==
    /\ eve_line = NoLine
    /\ UNCHANGED <<qvars, wvars, svars, avars, nvars, events_read, events_parsed,
                   events_queued, parse_errors, latest_stats, stats_lines,
                   rpc, pushed_lines, handler_storage, callbacks,
                   events_processed, events_stored, events_dropped,
                   callbacks_invoked, dispatched, stored_events,
                   client_buffer, buffer_size, socket_bytes, lines_written,
                   lines_returned, thr, eve_sock, api_sock, received,
                   joining>>
    /\ eve_line' = line
    /\ eve_result' = EveParse(line)

ParseNext == eve_line = NoLine /\ \E line \in EveLines : ParseLine(line)


(***************************************************************************)
(* Part VI.  The ingest reader and the event handler                      *)
(*                                                                         *)
(* eve_reader_thread reads one line at a time, tries it as a stats line,   *)
(* then as a security event, and pushes the event onto the queue as        *)
(* producer 1.  The event handler thread pops events and processes each:   *)
(* it stores the event and dispatches it to the registered callbacks.      *)
(***************************************************************************)
rvars == <<events_read, events_parsed, events_queued, parse_errors,
           latest_stats, stats_lines, rpc, pushed_lines>>
hvars == <<handler_storage, callbacks, events_processed, events_stored,
           events_dropped, callbacks_invoked, dispatched, stored_events>>
cvars == <<client_buffer, buffer_size, socket_bytes, lines_written,
           lines_returned>>
tvars == <<thr, eve_sock, api_sock, received, joining>>

\* vnids_eve_parse_stats: 0 only for a JSON object whose event_type is
\* "stats" and which has a "stats" object; the snapshot carries the uptime.
EveParseStats(line) ==
    IF line.json /\ line.event_type = "stats" /\ line.has_stats
    THEN [rc |-> 0,
          stats |-> [uptime_seconds |->
                        IF line.uptime = -1 THEN 0 ELSE line.uptime]]
    ELSE [rc |-> -1, stats |-> [uptime_seconds |-> 0]]

\* the lines the socket delivers: an alert, two stats lines, an event of a
\* type the parser does not know, and a line that is not JSON
IngestLines ==
    LET obj == [GarbageLine EXCEPT !.json = TRUE, !.timestamp = 1]
    IN  { [obj EXCEPT !.event_type = "alert", !.has_alert = TRUE,
                      !.signature_id = 1000001, !.severity = 2],
          [obj EXCEPT !.event_type = "stats", !.has_stats = TRUE,
                      !.uptime = 5],
          [obj EXCEPT !.event_type = "stats", !.has_stats = TRUE,
                      !.uptime = 6],
          [obj EXCEPT !.event_type = "dns"],
          GarbageLine }

EventInit ==
    /\ events_read = 0
    /\ events_parsed = 0
    /\ events_queued = 0
    /\ parse_errors = 0
    /\ latest_stats = [uptime_seconds |-> 0]
    /\ stats_lines = 0
    /\ rpc = "idle"
    /\ pushed_lines = <<>>
    /\ handler_storage = TRUE     \* the handler is started with a store
    /\ callbacks = <<>>
    /\ events_processed = 0
    /\ events_stored = 0
    /\ events_dropped = 0
    /\ callbacks_invoked = 0
    /\ dispatched = [event |-> [event_type |-> 0, severity |-> 0],
                     calls |-> <<>>]
    /\ stored_events = <<>>

\* eve_reader_thread, one line: events_read++, then the stats attempt, the
\* event attempt (the reader has a queue attached and goes on to push), or
\* a parse error.
ReaderLine(line) ==
    /\ UNCHANGED <<qvars, wvars, svars, avars, nvars, eve_line, eve_result, hvars,
                   cvars, tvars>>
    /\ rpc = "idle"
    /\ events_read < MaxLines
    /\ events_read' = events_read + 1
    /\ UNCHANGED events_queued
    /\ IF EveParseStats(line).rc = 0
       THEN /\ latest_stats' = EveParseStats(line).stats
            /\ stats_lines' = stats_lines + 1
            /\ UNCHANGED <<events_parsed, parse_errors, rpc, pushed_lines>>
       ELSE IF EveParse(line).rc = 0
       THEN /\ events_parsed' = events_parsed + 1
            /\ pushed_lines' = Append(pushed_lines, line)
            /\ rpc' = "push"
            /\ UNCHANGED <<latest_stats, stats_lines, parse_errors>>
       ELSE /\ parse_errors' = parse_errors + 1
            /\ UNCHANGED <<latest_stats, stats_lines, events_parsed, rpc,
                           pushed_lines>>

\* eve_reader_thread after vnids_event_queue_push returned: events_queued++
\* when it returned 0
ReaderAfterPushUnchecked ==
    /\ UNCHANGED <<qvars, wvars, svars, avars, nvars, eve_line, eve_result, hvars,
                   cvars, tvars>>
    /\ rpc = "push"
    /\ pcalls[1] = events_parsed
    /\ ppc[1] = "idle"
    /\ rpc' = "idle"
    /\ events_queued' = events_queued + 1
    /\ UNCHANGED <<events_read, events_parsed, parse_errors, latest_stats,
                   stats_lines, pushed_lines>>
ReaderAfterPush ==
    /\ UNCHANGED <<qvars, wvars, svars, avars, nvars, eve_line, eve_result, hvars,
                   cvars, tvars>>
    /\ rpc = "push"
    /\ pcalls[1] = events_parsed
    /\ ppc[1] = "idle"
    /\ rpc' = "idle"
    /\ events_queued' = IF <<1, events_parsed>> \in accepted
                        THEN events_queued + 1 ELSE events_queued
    /\ UNCHANGED <<events_read, events_parsed, parse_errors, latest_stats,
                   stats_lines, pushed_lines>>

\* vnids_event_handler_add_callback
HandlerAddCallback(event_type_filter, min_severity) ==
    /\ UNCHANGED <<qvars, wvars, svars, avars, nvars, eve_line, eve_result, rvars,
                   cvars, tvars>>
    /\ Len(callbacks) < MaxCallbacks
    /\ callbacks' = Append(callbacks,
                           [event_type_filter |-> event_type_filter,
                            min_severity |-> min_severity])
    /\ UNCHANGED <<handler_storage, events_processed, events_stored,
                   events_dropped, callbacks_invoked, dispatched,
                   stored_events>>

\* event_matches_filter
EventMatchesFilterAnySeverity(event, entry) ==
    ~(entry.event_type_filter # 0
        /\ entry.event_type_filter # event.event_type)
EventMatchesFilter(event, entry) ==
    /\ ~(entry.event_type_filter # 0
           /\ entry.event_type_filter # event.event_type)
    /\ ~(event.severity > entry.min_severity)

RECURSIVE SumSeq(_)
SumSeq(q) == IF q = <<>> THEN 0 ELSE Head(q) + SumSeq(Tail(q))

\* process_event: events_processed++, the insert into the store when one is
\* attached, then dispatch_to_callbacks.  src is the queue payload the event
\* came from; ok = FALSE: the insert fails.
ProcessEvent(event, src, ok) ==
    /\ UNCHANGED <<wvars, avars, nvars, eve_line, eve_result, rvars, cvars,
                   tvars>>
    /\ events_processed' = events_processed + 1
    /\ IF handler_storage
       THEN /\ InsertEvent(event.timestamp, ok)
            /\ IF ok
               THEN /\ events_stored' = events_stored + 1
                    /\ stored_events' = Append(stored_events, src)
                    /\ UNCHANGED events_dropped
               ELSE /\ events_dropped' = events_dropped + 1
                    /\ UNCHANGED <<events_stored, stored_events>>
       ELSE /\ ok
            /\ UNCHANGED <<svars, events_stored, events_dropped,
                           stored_events>>
    /\ LET calls == [i \in 1..Len(callbacks) |->
                        IF EventMatchesFilter(event, callbacks[i])
                        THEN 1 ELSE 0]
       IN  /\ dispatched' = [event |-> [event_type |-> event.event_type,
                                        severity |-> event.severity],
                             calls |-> calls]
           /\ callbacks_invoked' = callbacks_invoked + SumSeq(calls)
    /\ UNCHANGED <<handler_storage, callbacks>>

\* event_handler_thread: process the event popped last
HandlerProcess(ok) ==
    /\ UNCHANGED qvars
    /\ events_processed < Len(delivered)
    /\ LET src == delivered[events_processed + 1]
       IN  ProcessEvent(EveParse(pushed_lines[src[2]]).event, src, ok)

\* an event handed to process_event without the queue
HandlerDispatch(event) ==
    /\ UNCHANGED qvars
    /\ events_processed < MaxDispatch
    /\ ProcessEvent(event, <<0, events_processed + 1>>, TRUE)

\* Reader, queue, handler and store together while the daemon runs.  The
\* reader starts its push once per parsed event; the handler pops only
\* after it processed what it popped before.
PipelineNext ==
    \/ \E line \in IngestLines : ReaderLine(line)
    \/ rpc = "push" /\ pcalls[1] < events_parsed /\ PushCheck(1)
    \/ PushAlloc(1)
    \/ PushExchange(1)
    \/ PushLink(1)
    \/ PushIncSize(1)
    \/ PushIncCount(1)
    \/ ReaderAfterPush
    \/ events_processed = Len(delivered) /\ PopTake
    \/ PopDecSize
    \/ PopIncCount
    \/ events_processed = Len(delivered) /\ PopEmpty
    \/ \E ok \in BOOLEAN : HandlerProcess(ok)

\* The handler and its callbacks alone.  Callbacks are registered for every
\* type, anomalies or stats, with a threshold of critical, medium or info;
\* events of every type and severity are handed to process_event.
DispatchNext ==
    \/ \E f \in {0, 1, 3}, s \in {1, 3, 5} : HandlerAddCallback(f, s)
    \/ \E e \in [event_type : 0..3, severity : 1..5, timestamp : {1}] :
            HandlerDispatch(e)


(***************************************************************************)
(* Part VII.  The line reader of the EVE socket client                     *)
(*                                                                         *)
(* A byte is a number: 0 is the newline, k > 0 is a byte of the k-th line  *)
(* the peer wrote.  The buffer sizes are scaled down; the maximum stays    *)
(* twice the initial size, as in the source (131072 = 2 * 65536).          *)
(***************************************************************************)
EVE_LINE_MAX_SIZE == 2 * EVE_READ_BUFFER_SIZE

\* vnids_eve_client_create
ClientInit ==
    /\ client_buffer = <<>>
    /\ buffer_size = EVE_READ_BUFFER_SIZE
    /\ socket_bytes = <<>>
    /\ lines_written = <<>>
    /\ lines_returned = <<>>

\* the peer writes one line and its newline
PeerWriteLine(len) ==
    /\ UNCHANGED <<qvars, wvars, svars, avars, nvars, eve_line, eve_result, rvars,
                   hvars, tvars>>
    /\ Len(lines_written) < MaxWritten
    /\ lines_written' = Append(lines_written, len)
    /\ socket_bytes' = socket_bytes
                         \o [i \in 1..len |-> Len(lines_written) + 1] \o <<0>>
    /\ UNCHANGED <<client_buffer, buffer_size, lines_returned>>

\* memchr(buffer, '\n', buffer_used): the index of the first newline, 0 for
\* none
NewlineAt(buf) ==
    IF \E i \in 1..Len(buf) : buf[i] = 0
    THEN CHOOSE i \in 1..Len(buf) :
            buf[i] = 0 /\ \A j \in 1..(i - 1) : buf[j] # 0
    ELSE 0

\* eve_client_fill_buffer: the buffer is full when buffer_used reaches
\* buffer_size - 1
BufferFull(used, size) == used >= size - 1

\* vnids_eve_client_read_line on a connected client, with the one call of
\* eve_client_fill_buffer it makes when the buffer holds no newline; n is
\* the number of bytes read() returns (0: nothing to read, EAGAIN).
ReadLine(n) ==
    /\ UNCHANGED <<qvars, wvars, svars, avars, nvars, eve_line, eve_result, rvars,
                   hvars, tvars>>
    /\ UNCHANGED lines_written
    /\ LET used == Len(client_buffer)
           full == BufferFull(used, buffer_size)
           new_size == IF full THEN buffer_size * 2 ELSE buffer_size
           discard == NewlineAt(client_buffer) = 0 /\ full
                        /\ new_size > EVE_LINE_MAX_SIZE
           filled == client_buffer \o SubSeq(socket_bytes, 1, n)
           nl == NewlineAt(filled)
       IN  IF discard
           THEN /\ n = 0
                /\ client_buffer' = <<>>
                /\ UNCHANGED <<buffer_size, socket_bytes, lines_returned>>
           ELSE /\ IF NewlineAt(client_buffer) > 0
                   THEN n = 0 /\ UNCHANGED buffer_size
                   ELSE /\ buffer_size' = new_size
                        /\ n <= new_size - used - 1
                        /\ n <= Len(socket_bytes)
                        /\ n = 0 <=> socket_bytes = <<>>
                /\ socket_bytes' = SubSeq(socket_bytes, n + 1,
                                          Len(socket_bytes))
                /\ IF nl > 0
                   THEN /\ lines_returned' =
                             Append(lines_returned, SubSeq(filled, 1, nl - 1))
                        /\ client_buffer' =
                             SubSeq(filled, nl + 1, Len(filled))
                   ELSE /\ client_buffer' = filled
                        /\ UNCHANGED lines_returned

\* The peer writes lines that are short, as long as the initial buffer,
\* just under the maximum, and over the maximum.
LineNext ==
    \/ \E len \in {1, EVE_READ_BUFFER_SIZE, EVE_LINE_MAX_SIZE - 1,
                    EVE_LINE_MAX_SIZE + 1} : PeerWriteLine(len)
    \/ \E n \in 0..EVE_LINE_MAX_SIZE : ReadLine(n)


(***************************************************************************)
(* Part VIII.  The daemon's worker threads and vnidsd_destroy              *)
(*                                                                         *)
(* vnidsd_run starts four threads: vnids_watchdog_start run as a thread,   *)
(* vnids_eve_reader_thread, vnids_event_processor_thread and               *)
(* vnids_api_server_thread.  vnidsd_destroy sets running to false and      *)
(* joins them in the order of JoinOrder.  What the threads do with an      *)
(* event is modelled in the parts above; here only where they wait.        *)
(***************************************************************************)
JoinOrder == <<"eve_reader", "api_server", "watchdog", "event_processor">>

TeardownInit ==
    /\ thr = [t \in Range(JoinOrder) |-> "loop"]
    /\ eve_sock = [msgs |-> 0, closed |-> FALSE]
    /\ api_sock = "none"
    /\ received = 0
    /\ joining = 0

\* the peers of the two sockets: the event source sends a message or closes
\* its end; a control client connects, sends its request or closes
PeerStep(sock, act) ==
    /\ UNCHANGED <<qvars, wvars, svars, avars, nvars, eve_line, eve_result, rvars,
                   hvars, cvars, thr, received, joining>>
    /\ IF sock = "eve"
       THEN /\ ~eve_sock.closed
            /\ act \in {"send", "close"}
            /\ act = "send" => received + eve_sock.msgs < MaxMsgs
            /\ eve_sock' = IF act = "send"
                           THEN [eve_sock EXCEPT !.msgs = @ + 1]
                           ELSE [eve_sock EXCEPT !.closed = TRUE]
            /\ UNCHANGED api_sock
       ELSE /\ \/ act = "connect" /\ api_sock = "none"
                  /\ api_sock' = "connected"
               \/ act = "send" /\ api_sock = "connected"
                  /\ api_sock' = "request"
               \/ act = "close" /\ api_sock = "connected"
                  /\ api_sock' = "closed"
            /\ UNCHANGED eve_sock

\* vnids_eve_reader_thread (connected): the test of ctx->running, then
\* vnids_ipc_recv, whose recv(MSG_WAITALL) on the blocking socket returns
\* only when a message is there (1) or the peer has closed (0); after 0 the
\* thread tests running again and sleeps 100 ms.
EveReaderStep ==
    /\ UNCHANGED <<qvars, wvars, svars, avars, nvars, eve_line, eve_result, rvars,
                   hvars, cvars, api_sock, joining>>
    /\ \/ /\ thr["eve_reader"] = "loop"
          /\ thr' = [thr EXCEPT !["eve_reader"] =
                        IF daemon_running THEN "recv" ELSE "exited"]
          /\ UNCHANGED <<eve_sock, received>>
       \/ /\ thr["eve_reader"] = "recv"
          /\ eve_sock.msgs > 0
          /\ eve_sock' = [eve_sock EXCEPT !.msgs = @ - 1]
          /\ received' = received + 1
          /\ thr' = [thr EXCEPT !["eve_reader"] = "loop"]
       \/ /\ thr["eve_reader"] = "recv"
          /\ eve_sock.msgs = 0 /\ eve_sock.closed
          /\ thr' = [thr EXCEPT !["eve_reader"] =
                        IF daemon_running THEN "sleep" ELSE "exited"]
          /\ UNCHANGED <<eve_sock, received>>
       \/ /\ thr["eve_reader"] = "sleep"
          /\ thr' = [thr EXCEPT !["eve_reader"] = "loop"]
          /\ UNCHANGED <<eve_sock, received>>

\* vnids_api_server_thread: the test of ctx->running, the non-blocking
\* accept (it fails at once without a client), then vnids_ipc_recv on the
\* accepted, blocking socket, the response and close(client_fd).
ApiServerStep ==
    /\ UNCHANGED <<qvars, wvars, svars, avars, nvars, eve_line, eve_result, rvars,
                   hvars, cvars, eve_sock, received, joining>>
    /\ \/ /\ thr["api_server"] = "loop"
          /\ ~daemon_running
          /\ thr' = [thr EXCEPT !["api_server"] = "exited"]
          /\ UNCHANGED api_sock
       \/ /\ thr["api_server"] = "loop"
          /\ daemon_running
          /\ api_sock # "none"
          /\ thr' = [thr EXCEPT !["api_server"] = "recv"]
          /\ UNCHANGED api_sock
       \/ /\ thr["api_server"] = "recv"
          /\ api_sock \in {"request", "closed"}
          /\ api_sock' = "none"
          /\ thr' = [thr EXCEPT !["api_server"] = "loop"]

\* vnids_event_processor_thread polls the queue and tests ctx->running every
\* 10 ms; vnids_watchdog_start, run as a thread, returns once it has started
\* the monitor thread.
PollingThreadStep(t) ==
    /\ UNCHANGED <<qvars, wvars, svars, avars, nvars, eve_line, eve_result, rvars,
                   hvars, cvars, eve_sock, api_sock, received, joining>>
    /\ t \in {"watchdog", "event_processor"}
    /\ thr[t] = "loop"
    /\ t = "event_processor" => ~daemon_running
    /\ thr' = [thr EXCEPT ![t] = "exited"]

\* vnidsd_destroy, called after the main loop saw running == false:
\* running = false, then one pthread_join after the other; a join returns
\* once its thread has exited
DaemonJoin ==
    /\ UNCHANGED <<qvars, wvars, svars, avars, nvars, eve_line, eve_result, rvars,
                   hvars, cvars, thr, eve_sock, api_sock, received>>
    /\ ~daemon_running
    /\ joining < 5
    /\ joining > 0 => thr[JoinOrder[joining]] = "exited"
    /\ joining' = joining + 1

TeardownNext ==
    \/ DaemonSignal
    \/ \E sock \in {"eve", "api"}, act \in {"connect", "send", "close"} :
          PeerStep(sock, act)
    \/ EveReaderStep
    \/ ApiServerStep
    \/ \E t \in Range(JoinOrder) : PollingThreadStep(t)
    \/ DaemonJoin



(***************************************************************************)
(* Part IX.  The client slots of the control server (vnidsd/src/config.c)  *)
(*                                                                         *)
(* config.c serves 32 slots with 65536 bytes each; the model keeps the     *)
(* arithmetic with a few slots and the small buffer of Part IV.            *)
(***************************************************************************)

\* vnids_api_server_create: every slot inactive, client_count 0 (calloc)
ServerInit ==
    /\ clients = [i \in 1..API_MAX_CLIENTS |->
                     [active |-> FALSE, recv_used |-> 0, head_len |-> -1]]
    /\ client_count = 0
    /\ conn_rejected = 0

\* find_free_slot: the first slot that is not active, 0 for NULL
FindFreeSlotFirst(cl) == 1
FindFreeSlot(cl) ==
    IF \E i \in 1..API_MAX_CLIENTS : ~cl[i].active
    THEN CHOOSE i \in 1..API_MAX_CLIENTS :
            ~cl[i].active /\ \A j \in 1..(i - 1) : cl[j].active
    ELSE 0

\* accept_client for a connection that accept() returned; ok = FALSE:
\* epoll_ctl(EPOLL_CTL_ADD) fails.  Without a free slot, or when epoll_ctl
\* fails, the new descriptor is closed and nothing else is touched.
AcceptClient(ok) ==
    /\ UNCHANGED <<qvars, wvars, svars, avars, eve_line, eve_result, rvars,
                   hvars, cvars, tvars>>
    /\ LET slot == FindFreeSlot(clients)
       IN  IF slot = 0 \/ ~ok
           THEN /\ conn_rejected < MaxRejected
                /\ conn_rejected' = conn_rejected + 1
                /\ UNCHANGED <<clients, client_count>>
           ELSE /\ clients' = [clients EXCEPT ![slot] =
                                 [active |-> TRUE, recv_used |-> 0,
                                  head_len |-> -1]]
                /\ client_count' = client_count + 1
                /\ UNCHANGED conn_rejected

\* close_client on slot i (after EPOLLHUP or EPOLLERR, from
\* handle_client_data, or when the server thread leaves its loop)
CloseClient(i) ==
    /\ UNCHANGED <<qvars, wvars, svars, avars, eve_line, eve_result, rvars,
                   hvars, cvars, tvars>>
    /\ clients[i].active
    /\ clients' = [clients EXCEPT ![i] =
                     [active |-> FALSE, recv_used |-> 0, head_len |-> -1]]
    /\ client_count' = client_count - 1
    /\ UNCHANGED conn_rejected

\* handle_client_data, `while (client->recv_used >= sizeof(uint32_t))`:
\* `used` bytes are staged and the first four declare hl bytes of body;
\* the headers that follow declare len.  The result is the session after
\* the loop, or closed for a declared length over the cap.
RECURSIVE FrameLoop(_, _, _)
FrameLoop(used, hl, len) ==
    IF used < PREFIX_LEN
    THEN [active |-> TRUE, recv_used |-> used, head_len |-> -1]
    ELSE IF hl > MaxBody
    THEN [active |-> FALSE, recv_used |-> 0, head_len |-> -1]
    ELSE IF used < PREFIX_LEN + hl
    THEN [active |-> TRUE, recv_used |-> used, head_len |-> hl]
    ELSE FrameLoop(used - (PREFIX_LEN + hl), len, len)

\* handle_client_data on slot i: one recv and the framing loop after it.
\* n is what recv returns, at most sizeof(recv_buffer) - recv_used - 1;
\* 0 (peer closed, or no room left) and an error close the session; len is
\* the body length the peer declares in the headers it sends.
HandleClientData(i, n, len) ==
    /\ clients[i].active
    /\ n <= API_BUFFER_SIZE - clients[i].recv_used - 1
    /\ LET used == clients[i].recv_used + n
           hl == IF clients[i].head_len >= 0 THEN clients[i].head_len ELSE len
           after == FrameLoop(used, hl, len)
       IN  IF n = 0 \/ ~after.active
           THEN CloseClient(i)
           ELSE /\ UNCHANGED <<qvars, wvars, svars, avars, eve_line,
                               eve_result, rvars, hvars, cvars, tvars>>
                /\ clients' = [clients EXCEPT ![i] = after]
                /\ UNCHANGED <<client_count, conn_rejected>>

\* api_server_thread: one event of the epoll loop.  The peer declares a
\* body that is empty, short, the largest allowed, or one byte too long.
SessionNext ==
    \/ \E ok \in BOOLEAN : AcceptClient(ok)
    \/ \E i \in 1..API_MAX_CLIENTS : CloseClient(i)
    \/ \E i \in 1..API_MAX_CLIENTS, n \in 0..(API_BUFFER_SIZE - 1),
          len \in {0, 2, MaxBody, MaxBody + 1} : HandleClientData(i, n, len)


(***************************************************************************)
(* Specifications                                                          *)
(***************************************************************************)
Init ==
    /\ QueueInit /\ WatchdogInit /\ StorageInit /\ ApiInit /\ ParseInit
    /\ EventInit /\ ClientInit /\ TeardownInit /\ ServerInit

\* one part alone, the others idle (SIGCHLD at its default disposition)
QueueSpecInit == Init /\ sigchldIgnored = FALSE
QueueSpec == QueueSpecInit /\ [][QueueNext]_vars

\* the watchdog alone
WatchdogSpec == Init /\ [][WatchdogNext]_vars

\* The monitor thread is scheduled: it is never starved of the processor,
\* and its timed wait and its backoff sleep always return.
WatchdogLiveSpec == Init /\ [][WatchdogNext]_vars /\ WF_vars(Monitor)

\* the store alone
StoreSpec == QueueSpecInit /\ [][StoreNext]_vars

\* the control server alone
ApiSpec == QueueSpecInit /\ [][ApiNext]_vars

\* the parser alone
ParseSpec == QueueSpecInit /\ [][ParseNext]_vars

\* the handler and its callbacks
DispatchSpec == QueueSpecInit /\ [][DispatchNext]_vars

\* the client slots of the control server
SessionSpec == QueueSpecInit /\ [][SessionNext]_vars

\* the line reader and its peer
LineSpec == QueueSpecInit /\ [][LineNext]_vars

\* The daemon's threads and its teardown.  Every thread is scheduled and
\* the teardown proceeds; nothing is assumed of the peers.
TeardownLiveSpec ==
    /\ QueueSpecInit /\ [][TeardownNext]_vars
    /\ WF_vars(EveReaderStep)
    /\ WF_vars(ApiServerStep)
    /\ WF_vars(\E t \in Range(JoinOrder) : PollingThreadStep(t))
    /\ WF_vars(DaemonJoin)

\* the ingest pipeline
PipelineSpec == QueueSpecInit /\ [][PipelineNext]_vars

\* The handler thread is scheduled: its pops and process_event always
\* get to run.
PipelineLiveSpec ==
    /\ PipelineSpec
    /\ WF_vars(events_processed = Len(delivered) /\ PopTake)
    /\ WF_vars(PopDecSize)
    /\ WF_vars(PopIncCount)
    /\ WF_vars(\E ok \in BOOLEAN : HandlerProcess(ok))

Next ==
    \/ QueueNext \/ WatchdogNext \/ StoreNext \/ ApiNext \/ ParseNext
    \/ PipelineNext \/ DispatchNext \/ LineNext \/ TeardownNext
    \/ SessionNext
Spec == Init /\ [][Next]_vars

(***************************************************************************)
(* Properties of the event queue (checked under QueueSpec)                 *)
(***************************************************************************)

\* every payload that left the queue, in the order it left
DeliveredAll == delivered \o drained


\* payloads of pushes that have linked their node but not yet returned
LinkedInFlight == {pevent[p] : p \in {q \in Producers : ppc[q] \in {"size", "count"}}}

\* C1: no payload leaves the queue twice, every payload that leaves it is
\* the payload of a push that linked its node, and once the handler thread
\* has drained and vnids_event_queue_destroy has drained the rest, the
\* payloads that left the queue are exactly those of the pushes that
\* returned success: pushed = popped + drained.
C1_ExactlyOnce ==
    /\ \A i, j \in 1..Len(DeliveredAll) :
           i # j => DeliveredAll[i] # DeliveredAll[j]
    /\ Range(DeliveredAll) \subseteq (accepted \cup LinkedInFlight)
    /\ NoEvent \notin Range(DeliveredAll)
    /\ phase = "done" =>
           /\ Range(DeliveredAll) = accepted
           /\ enqueue_count = Len(delivered) + Len(drained)
           /\ enqueue_count = dequeue_count

\* C1 witness: termination reached with events both popped by the handler
\* and drained by destroy.
C1_Witness ==
    /\ phase = "done"
    /\ Len(delivered) >= 1
    /\ Len(drained) >= 1
    /\ Cardinality(accepted) >= 3

\* C2 (as claimed): a push that starts while the queue holds max_size
\* events is refused: dropped goes up by one, the producer is back at
\* idle, and the list, the size and the pushed counter are unchanged.
C2_FullPushRefused ==
    [][\A p \in Producers :
          (PushCheck(p) /\ Held >= max_size) =>
              /\ drop_count' = drop_count + 1
              /\ ppc'[p] = "idle"
              /\ UNCHANGED <<qlist, current_size, enqueue_count>>]_vars

\* C3 (as claimed): the number of events held never exceeds the capacity.
C3_HeldWithinCapacity == Held <= max_size

\* C4: the payloads of one producer leave the queue in the order that
\* producer pushed them (its k-th push before its (k+1)-th).
C4_FifoPerProducer ==
    \A i, j \in 1..Len(DeliveredAll) :
        (i < j /\ DeliveredAll[i][1] = DeliveredAll[j][1])
            => DeliveredAll[i][2] < DeliveredAll[j][2]

\* C4 witness: two events of one producer were popped with an event of
\* another producer popped between them.
C4_Witness ==
    \E i, j, k \in 1..Len(delivered) :
        /\ i < j /\ j < k
        /\ delivered[i][1] = delivered[k][1]
        /\ delivered[j][1] # delivered[i][1]

\* C21: once the event handler thread has left its drain loop (so that the
\* join in vnids_event_handler_stop returns), every payload whose push had
\* returned 0 when running was set to false has been popped and processed
\* by that thread, and the queue holds no event.
C21_DrainedBeforeExit ==
    phase = "exited" =>
        /\ stop_accepted \subseteq Range(delivered)
        /\ Held = 0

\* no push and no pop is in progress, and the queue has not been destroyed
Quiescent ==
    /\ \A p \in Producers : ppc[p] = "idle"
    /\ cpc = "idle"
    /\ phase \in {"run", "drain", "exited"}

\* C28: a newly created queue is empty with length 0; whenever no push or
\* pop is in progress, is_empty is true exactly when the length is 0 and
\* exactly when head equals tail, and the length equals pushed minus popped;
\* a pop on an empty queue returns empty and changes no counter.
C28_QuiescentQueue ==
    /\ vnids_event_queue_is_empty /\ vnids_event_queue_size = 0
    /\ [](Quiescent =>
            /\ vnids_event_queue_is_empty <=> vnids_event_queue_size = 0
            /\ vnids_event_queue_is_empty <=> head = tail
            /\ vnids_event_queue_size = enqueue_count - dequeue_count)
    /\ [][(/\ cpc = "idle" /\ cpc' = "idle"
           /\ vnids_event_queue_is_empty
           /\ lastPop' = "empty"
           /\ <<lastPop, phase>>' # <<lastPop, phase>>)
              => UNCHANGED <<enqueue_count, dequeue_count, drop_count,
                             current_size, head, tail>>]_vars

\* events were pushed and all of them popped, and the pop after them found
\* the queue empty
C28_Witness ==
    /\ Quiescent
    /\ enqueue_count > 1
    /\ dequeue_count = enqueue_count
    /\ vnids_event_queue_is_empty
    /\ lastPop = "empty"

\* C37: whatever the interleaving of pushes with the consumer's pop, the
\* size counter never goes below zero: it never holds a wrapped-around
\* value, which would exceed every count the check-then-increment of the
\* producers can produce.
C37_SizeNeverWraps == current_size <= QueueCap + NumProducers

\* C38: over create, pushes, pops and the final destroy every allocated
\* node, the initial stub included, is freed exactly once: destroy does not
\* free a node that was freed before, and once destroy has returned no node
\* is left allocated.
C38_FreedExactlyOnce ==
    /\ [][(phase = "free" /\ phase' # "free") => StubNode \notin freedNodes]_vars
    /\ [](phase = "done" => live = {})

(***************************************************************************)
(* Properties of the watchdog (checked under WatchdogSpec)                 *)
(***************************************************************************)

\* C5: restart_count never exceeds max_restart_attempts.
C5_RestartCountBounded ==
    restart_count >= 0 /\ restart_count <= max_restart_attempts

\* C5 witness: the restart budget is used up.
C5_Witness ==
    restart_count = max_restart_attempts /\ lastEvent = "relaunch_fail"

\* C6 (as claimed): the step that makes it max_restart_attempts + 1
\* failures in a row leaves the supervisor in state Failed.
C6_FailedAfterBudget ==
    [][(fails = max_restart_attempts /\ fails' = max_restart_attempts + 1)
          => state' = WATCHDOG_STATE_FAILED]_vars

\* C7: when the monitor's last two observations are a successful relaunch
\* and then a probe that found the child alive, restart_count is zero.
C7_CountResetAfterRecovery ==
    (prevEvent = "relaunch_ok" /\ lastEvent = "probe_alive")
        => restart_count = 0

\* C7 witness: a relaunch succeeded, the next probe found the child alive
\* and the supervisor is Running.
C7_Witness ==
    /\ prevEvent = "relaunch_ok"
    /\ lastEvent = "probe_alive"
    /\ state = WATCHDOG_STATE_RUNNING
    /\ restart_count = 0
    /\ wpc = "wait"

\* C8 (as claimed): the child has exited while the supervisor is Running
\* with restart_count zero; unless stop is requested or the relaunch fails,
\* the monitor gets to a successful relaunch with restart_count 1 and
\* state Running.
C8_CrashRecovered ==
    (/\ state = WATCHDOG_STATE_RUNNING
     /\ restart_count = 0
     /\ running
     /\ wpc = "wait"
     /\ suricata_pid > 0
     /\ proc # "alive")
    ~> (\/ ~running
        \/ lastEvent = "relaunch_fail"
        \/ (/\ lastEvent = "relaunch_ok"
            /\ state = WATCHDOG_STATE_RUNNING
            /\ restart_count = 1))

\* C9 (as claimed): while stop has not been requested, a supervisor in
\* state Failed stays Failed and the monitor does not go to relaunch.
C9_FailedIsTerminal ==
    [][(state = WATCHDOG_STATE_FAILED /\ running /\ running')
          => (state' = WATCHDOG_STATE_FAILED /\ wpc' # "backoff")]_vars

\* C10: after a stop call has returned (and until the next start) the
\* monitor thread is gone, no child process exists, no pid is held and the
\* state is Stopped; a further stop call changes no field of the watchdog.
C10_StopIdempotent ==
    /\ [](sinceStop =>
            /\ wpc = "none"
            /\ ~thread_started
            /\ ~running
            /\ proc = "none"
            /\ suricata_pid = NoPid
            /\ state = WATCHDOG_STATE_STOPPED)
    /\ [][(sinceStop /\ idleStops' = idleStops + 1) =>
            UNCHANGED <<state, restart_count, suricata_pid, running,
                        thread_started, wpc, spc, proc>>]_vars

\* C10 witness: the monitor ran with a live child, stop returned, and stop
\* was called again.
C10_Witness ==
    /\ sinceStop
    /\ idleStops >= 1
    /\ lastEvent = "probe_alive"

C39_StatusReadOnly ==
    [][WdIsRunning =>
        /\ UNCHANGED <<state, suricata_pid, restart_count>>
        /\ proc' = proc]_vars

\* C32: stopping a held subprocess sends SIGTERM first; SIGKILL is sent only
\* when the subprocess has not exited by the end of the ten one-second
\* polls; either way no unreaped subprocess is left when the pid is cleared.
C32_StopOrder ==
    [][(MonStopSuricata /\ suricata_pid > 0) =>
        /\ stop_calls'.term
        /\ stop_calls'.kill => stop_calls'.waited = STOP_POLLS
        /\ suricata_pid' = NoPid
        /\ proc' = "none"]_vars

\* C33: the monitor thread touches the subprocess pid only while it holds
\* the supervisor mutex: a step of the monitor taken while a public call
\* could lock the mutex does not write the pid.
C33_PidUnderMutex ==
    [][MonStopSuricata => (~MutexFree \/ UNCHANGED suricata_pid)]_vars

C20_EvictionFifo ==
    [][\A r \in rows \ rows' : \A o \in rows' : o.id > r.id]_vars

(***************************************************************************)
(* Properties of the control server (checked under ApiSpec)                *)
(***************************************************************************)
\* the entries of the session log with a given tag, in order
LogOf(tag) == SelectSeq(log, LAMBDA e : e[1] = tag)

\* the request text a dispatched message carries
TextOfDispatch(e) == RequestTexts[e[2][1]]

\* C11: the messages dispatched are the requests the client wrote, each
\* once and in order; every dispatch is followed at once by exactly one
\* response; and when nothing is left to read, a session whose requests were
\* all within the cap, whose peer has not closed and whose server is not
\* stopping has answered every request.
C11_OneResponsePerRequest ==
    /\ Len(LogOf("dispatch")) <= Len(sent)
    /\ \A i \in 1..Len(LogOf("dispatch")) :
           LogOf("dispatch")[i][2] = BodyBytes(sent[i])
    /\ \A i \in 1..Len(log) :
           log[i][1] = "dispatch" =>
               IF i = Len(log) THEN apc = "respond"
               ELSE log[i + 1][1] = "response"
    /\ \A i \in 1..Len(log) :
           log[i][1] = "response" => i > 1 /\ log[i - 1][1] = "dispatch"
    /\ (/\ apc = "recv" /\ wire = <<>>
        /\ ~peer_closed /\ server_running
        /\ \A i \in 1..Len(sent) : RequestTexts[sent[i]].len <= MaxBody)
           => Len(LogOf("response")) = Len(sent)

\* C12: the step that closes the session for a declared length above the
\* cap leaves the session closed, writes no response and adds exactly one
\* to the errors counter.
C12_OversizeCounted ==
    [][(/\ Len(log') = Len(log) + 1
        /\ log'[Len(log')] = <<"close", "too_large">>)
           => /\ ~active'
              /\ errors' = errors + 1]_vars

\* C13: a dispatched request whose command string is not a known command
\* runs no handler and is answered with success false and error code
\* invalid_command.
C13_UnknownCommandRejected ==
    \A i \in 1..Len(log) :
        (/\ log[i][1] = "dispatch"
         /\ TextOfDispatch(log[i]).json
         /\ TextOfDispatch(log[i]).command \notin DOMAIN CommandCodes)
            => /\ log[i][3] = -1
               /\ i < Len(log) =>
                      /\ ~log[i + 1][2].success
                      /\ log[i + 1][2].error_code = VNIDS_IPC_ERR_INVALID_COMMAND

\* C14: a set_config request whose key is outside the six known keys is
\* answered with success false and error_code 3; neither its dispatch nor
\* its response changes a configuration value or closes the session.
C14_BadKeyRejected ==
    [][(/\ Len(log') = Len(log) + 1
        /\ \/ log'[Len(log')][1] = "dispatch"
           \/ log'[Len(log')][1] = "response"
        /\ LET d == IF log'[Len(log')][1] = "dispatch" THEN log'[Len(log')]
                    ELSE log[Len(log)]
           IN  /\ TextOfDispatch(d).json
               /\ TextOfDispatch(d).command = "set_config"
               /\ TextOfDispatch(d).key \notin
                      {"log_level", "eve_socket", "rules_dir", "max_events",
                       "watchdog_interval", "stats_interval"})
           => /\ active /\ active'
              /\ cfg_values' = cfg_values
              /\ pending' # pending =>
                     \/ /\ ~pending'.success
                        /\ pending'.error_code = 3
                     \/ /\ pending' = NoResponse
                        /\ ~pending.success
                        /\ pending.error_code = 3
                        /\ log'[Len(log')] = <<"response", pending>>]_vars

C29_AlertFieldsPreserved ==
    LET l == eve_line
        e == eve_result.event
        code == [TCP |-> 1, UDP |-> 2, ICMP |-> 3, IGMP |-> 4, dns |-> 22]
        Names(c) == {n \in DOMAIN code : code[n] = c}
    IN  (l.json /\ l.event_type = "alert" /\ l.has_alert) =>
            /\ eve_result.rc = 0
            /\ l.signature_id # -1 => e.rule_sid = l.signature_id
            /\ l.gid # -1 => e.rule_gid = l.gid
            /\ l.severity # -1 => e.severity = l.severity
            /\ l.signature # Absent => e.message = l.signature
            /\ l.src_ip # Absent => e.src_addr = l.src_ip
            /\ l.dest_ip # Absent => e.dst_addr = l.dest_ip
            /\ l.src_port # -1 => e.src_port = l.src_port
            /\ l.dest_port # -1 => e.dst_port = l.dest_port
            /\ l.proto # Absent =>
                   \/ l.proto \in Names(e.protocol)
                   \/ l.app_proto # Absent /\ l.app_proto \in Names(e.protocol)

\* C30: parsing an alert line succeeds whichever optional members it
\* omits, and each omitted member leaves zero or the empty string in the
\* event: rule ids, severity, protocol, ports, addresses, message.
C30_OmittedFieldsZero ==
    LET l == eve_line
        e == eve_result.event
    IN  (l.json /\ l.event_type = "alert" /\ l.has_alert) =>
            /\ eve_result.rc = 0
            /\ l.signature_id = -1 => e.rule_sid = 0
            /\ l.gid = -1 => e.rule_gid = 0
            /\ l.severity = -1 => e.severity = 0
            /\ (l.proto = Absent /\ l.app_proto = Absent) => e.protocol = 0
            /\ l.src_port = -1 => e.src_port = 0
            /\ l.dest_port = -1 => e.dst_port = 0
            /\ l.src_ip = Absent => e.src_addr = ""
            /\ l.dest_ip = Absent => e.dst_addr = ""
            /\ l.signature = Absent => e.message = ""

\* C27: every request whose declared body length is at most the cap
\* (buffer size minus the prefix), the cap itself included, is accepted,
\* staged, dispatched and answered; only a longer declared length is
\* rejected: the server ends a session whose peer is still connected only
\* after a request that declared more than the cap.
C27_BoundaryAccepted ==
    [][(/\ Len(log') = Len(log) + 1
        /\ log'[Len(log')] \in {<<"close", "recv0">>, <<"close", "too_large">>}
        /\ ~peer_closed)
           => \E i \in 1..Len(sent) : RequestTexts[sent[i]].len > MaxBody]_vars

\* C36: a line that is valid JSON but carries an unknown event_type is
\* dropped: the parser rejects it, so that the ingest thread counts a parse
\* error, pushes nothing and goes on to the next line.
C36_UnknownTypeDropped ==
    (/\ eve_line.json
     /\ eve_line.event_type \notin {"alert", "anomaly", "flow", "stats", Absent})
        => eve_result.rc # 0

(***************************************************************************)
(* Properties of the event handler (checked under DispatchSpec)            *)
(***************************************************************************)

\* C22: for every event the dispatcher processes and every registered
\* callback, the callback is invoked exactly once when its filter is 0 or
\* the event's type and the event's severity is at most its min_severity,
\* and is not invoked otherwise.
C22_CallbackDispatch ==
    [][events_processed' > events_processed =>
        /\ Len(dispatched'.calls) = Len(callbacks)
        /\ \A i \in 1..Len(callbacks) :
             dispatched'.calls[i] =
                IF /\ \/ callbacks[i].event_type_filter = 0
                      \/ callbacks[i].event_type_filter
                            = dispatched'.event.event_type
                   /\ dispatched'.event.severity <= callbacks[i].min_severity
                THEN 1 ELSE 0]_vars

\* an event went to one registered callback and not to another
C22_Witness ==
    /\ events_processed > 0
    /\ \E i, j \in 1..Len(dispatched.calls) :
         dispatched.calls[i] = 1 /\ dispatched.calls[j] = 0

\* C40: for each event type K (alert, anomaly, flow, stats), a callback
\* registered with filter K is invoked only for events of type K.
C40_FilterExact ==
    [][events_processed' > events_processed =>
        \A i \in 1..Len(callbacks) :
            dispatched'.calls[i] = 1 =>
                dispatched'.event.event_type
                    = callbacks[i].event_type_filter]_vars


(***************************************************************************)
(* Properties of the ingest pipeline (checked under PipelineSpec)          *)
(***************************************************************************)

AllPushedWhilePaused ==
    /\ rpc = "idle"
    /\ pcalls[1] = MaxPush
    /\ dequeue_count = 0
    /\ cpc = "idle"
    /\ \A e \in refused : e[2] > max_size

\* every accepted event is in the store, each as one row of its own
AcceptedStored ==
    /\ events_stored = Cardinality(accepted)
    /\ Cardinality(rows) = Cardinality(accepted)
    /\ \A e \in accepted :
         /\ Cardinality({n \in 1..Len(stored_events) : stored_events[n] = e})
              = 1
         /\ \A n \in 1..Len(stored_events) :
              stored_events[n] = e =>
                 Cardinality({r \in rows : r.wr = n}) = 1

C26_OverlongDropped ==
    /\ buffer_size <= EVE_LINE_MAX_SIZE
    /\ \A i \in 1..Len(lines_returned) :
         \A j \in 1..Len(lines_returned[i]) :
            LET k == lines_returned[i][j]
            IN  /\ lines_written[k] <= EVE_LINE_MAX_SIZE
                /\ (k > 1 /\ lines_written[k - 1] > EVE_LINE_MAX_SIZE)
                     => lines_returned[i] = [x \in 1..lines_written[k] |-> k]

\* C34: when every line the peer wrote is within the size cap, then however
\* the stream is split across reads, the lines returned so far are exactly
\* the first lines of the stream, in order, each once and without its
\* newline, and every byte not yet returned is still in the buffer or in
\* the socket.
C34_LinesExact ==
    (\A k \in 1..Len(lines_written) : lines_written[k] < EVE_LINE_MAX_SIZE)
        => /\ Len(lines_returned) <= Len(lines_written)
           /\ \A i \in 1..Len(lines_returned) :
                /\ i <= Len(lines_written)
                /\ lines_returned[i] = [x \in 1..lines_written[i] |-> i]
           /\ Len(client_buffer) + Len(socket_bytes)
                + SumSeq([i \in 1..Len(lines_returned) |->
                             Len(lines_returned[i]) + 1])
                = SumSeq([k \in 1..Len(lines_written) |->
                             lines_written[k] + 1])


(***************************************************************************)
(* Properties of the teardown (checked under TeardownLiveSpec)             *)
(***************************************************************************)

\* C25: after the shutdown flag is set, every worker thread eventually
\* observes it and exits, even when its peer is silent or disconnected, so
\* each join of the teardown returns and the daemon terminates.
C25_WorkersExit ==
    ~daemon_running ~>
        /\ \A t \in Range(JoinOrder) : thr[t] = "exited"
        /\ joining = 5

(***************************************************************************)
(* Properties of the client slots (checked under SessionSpec)              *)
(***************************************************************************)

\* C35: at most API_MAX_CLIENTS sessions are active, client_count is the
\* number of active slots, and the bytes staged for a session stay within
\* its buffer; a connection that arrives while every slot is in use is
\* closed and leaves every session and the count as they were.
C35_SessionsBounded ==
    /\ [](/\ client_count = Cardinality({i \in 1..API_MAX_CLIENTS :
                                            clients[i].active})
          /\ client_count <= API_MAX_CLIENTS
          /\ \A i \in 1..API_MAX_CLIENTS :
                /\ clients[i].recv_used >= 0
                /\ clients[i].recv_used < API_BUFFER_SIZE
                /\ ~clients[i].active => clients[i].recv_used = 0)
    /\ [][(\/ conn_rejected' # conn_rejected
            \/ /\ \A i \in 1..API_MAX_CLIENTS : clients[i].active
               /\ \E ok \in BOOLEAN : AcceptClient(ok))
           => /\ conn_rejected' = conn_rejected + 1
              /\ UNCHANGED <<clients, client_count>>]_vars

\* C35 witness: every slot is in use, one session has filled its buffer,
\* and a further connection was turned away
C35_Witness ==
    /\ \A i \in 1..API_MAX_CLIENTS : clients[i].active
    /\ client_count = API_MAX_CLIENTS
    /\ \E i \in 1..API_MAX_CLIENTS : clients[i].recv_used = API_BUFFER_SIZE - 1
    /\ conn_rejected >= 1

====
